---- MODULE Spec2Model ----
(***************************************************************************)
(* Model of the kernel task core (kern/src/task.rs): the task record, the  *)
(* notification engine (post / update_mask / acknowledge_notifications)   *)
(* and the priority-scan scheduler (select / priority_scan).               *)
(*                                                                         *)
(* A u32 is kept as its two 16-bit halves [hi, lo] so that every bit of    *)
(* the 32-bit word is represented and the bitwise operators are exact.     *)
(***************************************************************************)
EXTENDS Integers, Sequences, FiniteSets, TLC

(***************************************************************************)
(* Bounds of the exploration.                                              *)
(***************************************************************************)
\* number of low notification bits the inputs range over
NotifBits == 1
\* largest task table explored
MaxTasks == 3
\* priorities range over 0..MaxPrio
MaxPrio == 2
\* deadlines range over 1..MaxTime, the current time over 0..MaxTime
MaxTime == 2
\* reboots of a task are explored until its generation is MaxReboots
MaxReboots == 1

\* reboots of a task followed after a peer formed its ID: one wrap of the
\* generation and one more
MaxStaleReboots == 65

\* slices start at addresses 0..MaxAddr and have lengths 0..MaxAddr
MaxAddr == 3

(***************************************************************************)
(* Option<T>                                                               *)
(***************************************************************************)
None == [some |-> FALSE]

Some(x) == [some |-> TRUE, val |-> x]

(***************************************************************************)
(* 32-bit words and their bitwise operators.                               *)
(***************************************************************************)
RECURSIVE Pow2(_)
Pow2(n) == IF n = 0 THEN 1 ELSE 2 * Pow2(n - 1)

\* a u32 is two 16-bit halves
Half == Pow2(16)

W(h, l) == [hi |-> h, lo |-> l]

Zero32 == W(0, 0)

RECURSIVE And16(_, _)
And16(x, y) ==
    IF x = 0 \/ y = 0 THEN 0
    ELSE (x % 2) * (y % 2) + 2 * And16(x \div 2, y \div 2)

RECURSIVE Or16(_, _)
Or16(x, y) ==
    IF x = 0 THEN y
    ELSE IF y = 0 THEN x
    ELSE (IF x % 2 = 1 \/ y % 2 = 1 THEN 1 ELSE 0) + 2 * Or16(x \div 2, y \div 2)

\* a & b
WAnd(a, b) == W(And16(a.hi, b.hi), And16(a.lo, b.lo))

\* a | b
WOr(a, b) == W(Or16(a.hi, b.hi), Or16(a.lo, b.lo))

\* !a
WNot(a) == W((Half - 1) - a.hi, (Half - 1) - a.lo)

\* u32::from(x) for a u16 x, and `x as u32` for a small usize x
U32FromU16(x) == W(0, x % Half)

(***************************************************************************)
(* abi::SchedState, abi::TaskState, abi::FaultInfo                         *)
(***************************************************************************)
Runnable == [tag |-> "Runnable"]

InSend(t) == [tag |-> "InSend", peer |-> t]

InReply(t) == [tag |-> "InReply", peer |-> t]

InRecv(o) == [tag |-> "InRecv", peer |-> o]

Healthy(s) == [tag |-> "Healthy", sched |-> s]

Faulted(s, f) == [tag |-> "Faulted", original_state |-> s, fault |-> f]

\* TaskID::KERNEL = TaskID(u16::MAX)
KERNEL == 65535

\* TaskID::IDX_BITS
IDX_BITS == 10

\* TaskID::IDX_MASK = (1 << IDX_BITS) - 1
IDX_MASK == Pow2(IDX_BITS) - 1

\* variant: the index keeps one bit less
from_index_and_gen_NarrowIndex(index, gen) ==
    Or16((gen * Pow2(IDX_BITS)) % Half, And16(index % Half, IDX_MASK \div 2))

\* variant: the index in the top bits, the generation in the low ones
from_index_and_gen_IndexOnTop(index, gen) ==
    Or16((And16(index % Half, IDX_MASK) * Pow2(16 - IDX_BITS)) % Half, gen)

\* TaskID::from_index_and_gen: (gen as u16) << IDX_BITS | (index as u16 & IDX_MASK)
from_index_and_gen(index, gen) ==
    Or16((gen * Pow2(IDX_BITS)) % Half, And16(index % Half, IDX_MASK))

\* TaskID::index: usize::from(self.0 & IDX_MASK)
TaskID_index(id) == And16(id, IDX_MASK)

\* TaskID::generation: Generation((self.0 >> IDX_BITS) as u8)
TaskID_generation(id) == (id \div Pow2(IDX_BITS)) % 256

(***************************************************************************)
(* ArchState: the return registers of the saved state.                     *)
(***************************************************************************)
set_recv_result(save, sender, operation, length, response_capacity, lease_count) ==
    [save EXCEPT !.ret0 = Zero32,
                 !.ret1 = U32FromU16(sender),
                 !.ret2 = operation,
                 !.ret3 = U32FromU16(length),
                 !.ret4 = U32FromU16(response_capacity),
                 !.ret5 = U32FromU16(lease_count)]

(***************************************************************************)
(* Task methods.  Each returns the task after the call, and those with a   *)
(* return value return [task, ret].                                        *)
(***************************************************************************)
\* variant: clears every pending bit, not only the masked ones
acknowledge_notifications_ClearAll(task) ==
    [task EXCEPT !.notifications = Zero32]

acknowledge_notifications(task) ==
    [task EXCEPT !.notifications = WAnd(@, WNot(task.notification_mask))]

\* variant: reports the posted bits, not the firing bits, as the operation
post_ReportsPosted(task, n) ==
    LET t1 == [task EXCEPT !.notifications = WOr(@, n)]
        firing == WAnd(t1.notifications, t1.notification_mask)
    IN  IF firing # Zero32 /\ t1.state = Healthy(InRecv(None))
        THEN LET t2 == [t1 EXCEPT !.save = set_recv_result(@, KERNEL, n, 0, 0, 0)]
                 t3 == [t2 EXCEPT !.state = Healthy(Runnable)]
             IN  [task |-> acknowledge_notifications(t3), ret |-> TRUE]
        ELSE [task |-> t1, ret |-> FALSE]

\* variant: only the bits of this call can fire, bits pending from before
\* are not looked at
post_FiresPostedOnly(task, n) ==
    LET t1 == [task EXCEPT !.notifications = WOr(@, n)]
        firing == WAnd(n, t1.notification_mask)
    IN  IF firing # Zero32 /\ t1.state = Healthy(InRecv(None))
        THEN LET t2 == [t1 EXCEPT !.save = set_recv_result(@, KERNEL, firing, 0, 0, 0)]
                 t3 == [t2 EXCEPT !.state = Healthy(Runnable)]
             IN  [task |-> acknowledge_notifications(t3), ret |-> TRUE]
        ELSE [task |-> t1, ret |-> FALSE]

\* variant: wakes a task in any receive, open or closed
post_AnyRecv(task, n) ==
    LET t1 == [task EXCEPT !.notifications = WOr(@, n)]
        firing == WAnd(t1.notifications, t1.notification_mask)
    IN  IF firing # Zero32 /\ t1.state.tag = "Healthy"
           /\ t1.state.sched.tag = "InRecv"
        THEN LET t2 == [t1 EXCEPT !.save = set_recv_result(@, KERNEL, firing, 0, 0, 0)]
                 t3 == [t2 EXCEPT !.state = Healthy(Runnable)]
             IN  [task |-> acknowledge_notifications(t3), ret |-> TRUE]
        ELSE [task |-> t1, ret |-> FALSE]

\* variant: wakes the task without acknowledging the delivered bits
post_NoAck(task, n) ==
    LET t1 == [task EXCEPT !.notifications = WOr(@, n)]
        firing == WAnd(t1.notifications, t1.notification_mask)
    IN  IF firing # Zero32 /\ t1.state = Healthy(InRecv(None))
        THEN LET t2 == [t1 EXCEPT !.save = set_recv_result(@, KERNEL, firing, 0, 0, 0)]
                 t3 == [t2 EXCEPT !.state = Healthy(Runnable)]
             IN  [task |-> t3, ret |-> TRUE]
        ELSE [task |-> t1, ret |-> FALSE]

\* variant: only bits that were not pending before can fire
post_NewBitsOnly(task, n) ==
    LET t1 == [task EXCEPT !.notifications = WOr(@, n)]
        firing == WAnd(WAnd(n, WNot(task.notifications)), t1.notification_mask)
    IN  IF firing # Zero32 /\ t1.state = Healthy(InRecv(None))
        THEN LET t2 == [t1 EXCEPT !.save = set_recv_result(@, KERNEL, firing, 0, 0, 0)]
                 t3 == [t2 EXCEPT !.state = Healthy(Runnable)]
             IN  [task |-> acknowledge_notifications(t3), ret |-> TRUE]
        ELSE [task |-> t1, ret |-> FALSE]

\* variant: also wakes a faulted task that was in open receive
post_WakesFaulted(task, n) ==
    LET t1 == [task EXCEPT !.notifications = WOr(@, n)]
        firing == WAnd(t1.notifications, t1.notification_mask)
        receiving == \/ t1.state = Healthy(InRecv(None))
                     \/ /\ t1.state.tag = "Faulted"
                        /\ t1.state.original_state = InRecv(None)
    IN  IF firing # Zero32 /\ receiving
        THEN LET t2 == [t1 EXCEPT !.save = set_recv_result(@, KERNEL, firing, 0, 0, 0)]
                 t3 == [t2 EXCEPT !.state = Healthy(Runnable)]
             IN  [task |-> acknowledge_notifications(t3), ret |-> TRUE]
        ELSE [task |-> t1, ret |-> FALSE]

\* variant: keeps only the posted bits that the mask lets through
post_DropsMasked(task, n) ==
    LET t1 == [task EXCEPT !.notifications =
                              WOr(@, WAnd(n, task.notification_mask))]
        firing == WAnd(t1.notifications, t1.notification_mask)
    IN  IF firing # Zero32 /\ t1.state = Healthy(InRecv(None))
        THEN LET t2 == [t1 EXCEPT !.save = set_recv_result(@, KERNEL, firing, 0, 0, 0)]
                 t3 == [t2 EXCEPT !.state = Healthy(Runnable)]
             IN  [task |-> acknowledge_notifications(t3), ret |-> TRUE]
        ELSE [task |-> t1, ret |-> FALSE]

post(task, n) ==
    LET t1 == [task EXCEPT !.notifications = WOr(@, n)]
        firing == WAnd(t1.notifications, t1.notification_mask)
    IN  IF firing # Zero32 /\ t1.state = Healthy(InRecv(None))
        THEN LET t2 == [t1 EXCEPT !.save = set_recv_result(@, KERNEL, firing, 0, 0, 0)]
                 t3 == [t2 EXCEPT !.state = Healthy(Runnable)]
             IN  [task |-> acknowledge_notifications(t3), ret |-> TRUE]
        ELSE [task |-> t1, ret |-> FALSE]

\* variant: acknowledges the bits it reports
update_mask_Acks(task, m) ==
    LET t1 == [task EXCEPT !.notification_mask = m]
        firing == WAnd(t1.notifications, t1.notification_mask)
    IN  [task |-> IF firing # Zero32 THEN acknowledge_notifications(t1) ELSE t1,
         ret |-> IF firing # Zero32 THEN Some(firing) ELSE None]

update_mask(task, m) ==
    LET t1 == [task EXCEPT !.notification_mask = m]
        firing == WAnd(t1.notifications, t1.notification_mask)
    IN  [task |-> t1, ret |-> IF firing # Zero32 THEN Some(firing) ELSE None]

\* variant: looks at the scheduling state only, also inside a fault
is_runnable_IgnoresFault(task) ==
    \/ task.state = Healthy(Runnable)
    \/ task.state.tag = "Faulted" /\ task.state.original_state = Runnable

is_runnable(task) == task.state = Healthy(Runnable)

(***************************************************************************)
(* AsTimerArgs: the TIMER arguments in the saved registers.  A u64 is a    *)
(* pair [hi, lo] of u32 words.                                             *)
(***************************************************************************)
\* u64::from(x) for a u32 x
U64FromU32(x) == [hi |-> Zero32, lo |-> x]

\* x << 32 on u64
U64Shl32(x) == [hi |-> x.lo, lo |-> Zero32]

\* a | b on u64
U64Or(a, b) == [hi |-> WOr(a.hi, b.hi), lo |-> WOr(a.lo, b.lo)]

\* Timestamp::from(u64)
Timestamp_from(ticks) == [ticks |-> ticks]

\* variant: arg1 is taken as the high word
AsTimerArgs_deadline_SwapsWords(save) ==
    IF save.arg0 # Zero32
    THEN Some(Timestamp_from(U64Or(U64Shl32(U64FromU32(save.arg1)),
                                   U64FromU32(save.arg2))))
    ELSE None

\* AsTimerArgs::deadline
AsTimerArgs_deadline(save) ==
    IF save.arg0 # Zero32
    THEN Some(Timestamp_from(U64Or(U64Shl32(U64FromU32(save.arg2)),
                                   U64FromU32(save.arg1))))
    ELSE None

\* AsTimerArgs::notification: NotificationSet(arg3)
AsTimerArgs_notification(save) == save.arg3

(***************************************************************************)
(* The memory regions of a task.  A region is [base, size, attributes], a  *)
(* slice is [base, len]; the region table is a sequence of regions.        *)
(***************************************************************************)
\* USlice::is_empty
is_empty(slice) == slice.len = 0

\* RegionDesc::covers: the slice lies within [base, base + size)
covers(region, slice) ==
    /\ region.base <= slice.base
    /\ slice.base + slice.len <= region.base + region.size

\* RegionAttributes::contains
contains(attributes, flag) == flag \in attributes

\* variant: device memory counts as normal memory
can_read_AllowsDevice(task, slice) ==
    IF is_empty(slice)
    THEN TRUE
    ELSE \E k \in DOMAIN task.region_table :
            LET region == task.region_table[k]
            IN  /\ covers(region, slice)
                /\ contains(region.attributes, "READ")

can_read(task, slice) ==
    IF is_empty(slice)
    THEN TRUE
    ELSE \E k \in DOMAIN task.region_table :
            LET region == task.region_table[k]
            IN  /\ covers(region, slice)
                /\ contains(region.attributes, "READ")
                /\ ~contains(region.attributes, "DEVICE")

can_write(task, slice) ==
    IF is_empty(slice)
    THEN TRUE
    ELSE \E k \in DOMAIN task.region_table :
            LET region == task.region_table[k]
            IN  /\ covers(region, slice)
                /\ contains(region.attributes, "WRITE")
                /\ ~contains(region.attributes, "DEVICE")

(***************************************************************************)
(* abi::Priority: a lower number is more important.                        *)
(***************************************************************************)
is_more_important_than(a, b) == a < b

(***************************************************************************)
(* The scheduler.  A task table is a function over 0..len-1.               *)
(***************************************************************************)
\* the scan dereferenced an index outside the table
IndexPanic == [some |-> FALSE, panic |-> TRUE]

\* variant: always scans from index 0, wherever the previous task was
SearchOrder_FromZero(previous, len) ==
    [k \in 1..(IF len > previous + 1 THEN len ELSE previous + 1) |-> k - 1]

\* variant: the second range stops before previous: 0..previous
SearchOrder_SkipsPrevious(previous, len) ==
    LET n1 == IF len > previous + 1 THEN len - (previous + 1) ELSE 0
    IN  [k \in 1..(n1 + previous) |->
            IF k <= n1 THEN previous + k ELSE k - n1 - 1]

\* variant: the second range stops at the end of the table
SearchOrder_Clamped(previous, len) ==
    LET n1 == IF len > previous + 1 THEN len - (previous + 1) ELSE 0
        n2 == IF previous + 1 < len THEN previous + 1 ELSE len
    IN  [k \in 1..(n1 + n2) |->
            IF k <= n1 THEN previous + k ELSE k - n1 - 1]

\* (previous + 1..tasks.len()).chain(0..previous + 1)
SearchOrder(previous, len) ==
    LET n1 == IF len > previous + 1 THEN len - (previous + 1) ELSE 0
    IN  [k \in 1..(n1 + previous + 1) |->
            IF k <= n1 THEN previous + k ELSE k - n1 - 1]

\* variant: the first task that satisfies the predicate is kept, whatever
\* the priorities of the later ones
RECURSIVE ScanLoop_FirstMatch(_, _, _, _, _)
ScanLoop_FirstMatch(order, k, tasks, predv, choice) ==
    IF k > Len(order) THEN choice
    ELSE LET i == order[k]
         IN  IF i \notin DOMAIN tasks THEN IndexPanic
             ELSE IF ~predv[i]
                  THEN ScanLoop_FirstMatch(order, k + 1, tasks, predv, choice)
             ELSE IF choice.some
                  THEN ScanLoop_FirstMatch(order, k + 1, tasks, predv, choice)
             ELSE ScanLoop_FirstMatch(order, k + 1, tasks, predv,
                                      Some(<<i, tasks[i].priority>>))

\* variant: a task of equal priority replaces the current choice
RECURSIVE ScanLoop_TiesReplace(_, _, _, _, _)
ScanLoop_TiesReplace(order, k, tasks, predv, choice) ==
    IF k > Len(order) THEN choice
    ELSE LET i == order[k]
         IN  IF i \notin DOMAIN tasks THEN IndexPanic
             ELSE IF ~predv[i]
                  THEN ScanLoop_TiesReplace(order, k + 1, tasks, predv, choice)
             ELSE IF choice.some
                     /\ is_more_important_than(choice.val[2], tasks[i].priority)
                  THEN ScanLoop_TiesReplace(order, k + 1, tasks, predv, choice)
             ELSE ScanLoop_TiesReplace(order, k + 1, tasks, predv,
                                       Some(<<i, tasks[i].priority>>))

\* the body of the for loop of priority_scan, from position k of the order
RECURSIVE ScanLoop(_, _, _, _, _)
ScanLoop(order, k, tasks, predv, choice) ==
    IF k > Len(order) THEN choice
    ELSE LET i == order[k]
         IN  IF i \notin DOMAIN tasks THEN IndexPanic
             ELSE IF ~predv[i]
                  THEN ScanLoop(order, k + 1, tasks, predv, choice)
             ELSE IF choice.some
                     /\ ~is_more_important_than(tasks[i].priority, choice.val[2])
                  THEN ScanLoop(order, k + 1, tasks, predv, choice)
             ELSE ScanLoop(order, k + 1, tasks, predv,
                           Some(<<i, tasks[i].priority>>))

\* pred, the closure, is a function from the tasks of the table to BOOLEAN
priority_scan(previous, tasks, pred) ==
    LET len == Cardinality(DOMAIN tasks)
        predv == [i \in DOMAIN tasks |-> pred[tasks[i]]]
        choice == ScanLoop(SearchOrder(previous, len), 1, tasks, predv, None)
    IN  IF "panic" \in DOMAIN choice THEN IndexPanic
        ELSE IF choice.some THEN Some(choice.val[1])
        ELSE None

\* priority_scan(previous, tasks, |t| t.is_runnable()).expect("no tasks runnable")
select(previous, tasks) ==
    LET r == priority_scan(previous, tasks,
                           [t \in {tasks[i] : i \in DOMAIN tasks} |-> is_runnable(t)])
    IN  IF r.some THEN [panic |-> FALSE, index |-> r.val]
        ELSE [panic |-> TRUE]

(***************************************************************************)
(* Timers.  A Timestamp is a number of kernel ticks.                       *)
(***************************************************************************)
\* variant: a None deadline leaves an armed deadline in place
set_timer_NoneKeepsDeadline(task, deadline, notifications) ==
    [task EXCEPT !.timer = [deadline |-> IF deadline.some THEN deadline ELSE @.deadline,
                            to_post |-> notifications]]

set_timer(task, deadline, notifications) ==
    [task EXCEPT !.timer = [deadline |-> deadline, to_post |-> notifications]]

(***************************************************************************)
(* Generation and Task::reinitialize.                                      *)
(***************************************************************************)
\* const MASK: u16 = 0xFFFF << TaskID::IDX_BITS >> TaskID::IDX_BITS
GEN_MASK == (((Half - 1) * Pow2(IDX_BITS)) % Half) \div Pow2(IDX_BITS)

\* variant: the counter runs over the whole byte
Generation_next_NoMask(g) == (g + 1) % 256

\* Generation(self.0.wrapping_add(1) & MASK as u8)
Generation_next(g) == And16((g + 1) % 256, GEN_MASK % 256)

\* TimerState::default()
DefaultTimer == [deadline |-> None, to_post |-> Zero32]

\* TaskState::default()
DefaultTaskState == Healthy(Runnable)

\* the saved state at the entry of a task: no syscall result yet
EntrySave ==
    [ret0 |-> Zero32, ret1 |-> Zero32, ret2 |-> Zero32, ret3 |-> Zero32,
     ret4 |-> Zero32, ret5 |-> Zero32]

\* crate::arch::reinitialize(task)
arch_reinitialize(task) == [task EXCEPT !.save = EntrySave]

\* variant: the pending notifications survive the reboot
reinitialize_KeepsPending(task) ==
    arch_reinitialize([task EXCEPT !.generation = Generation_next(@),
                                   !.timer = DefaultTimer,
                                   !.notification_mask = Zero32,
                                   !.state = DefaultTaskState])

\* variant: the notification mask survives the reboot
reinitialize_KeepsMask(task) ==
    arch_reinitialize([task EXCEPT !.generation = Generation_next(@),
                                   !.timer = DefaultTimer,
                                   !.notifications = Zero32,
                                   !.state = DefaultTaskState])

reinitialize(task) ==
    arch_reinitialize([task EXCEPT !.generation = Generation_next(@),
                                   !.timer = DefaultTimer,
                                   !.notifications = Zero32,
                                   !.notification_mask = Zero32,
                                   !.state = DefaultTaskState])

(***************************************************************************)
(* NextTask, the scheduling hint.                                          *)
(***************************************************************************)
Same == [tag |-> "Same"]

Other == [tag |-> "Other"]

Specific(i) == [tag |-> "Specific", index |-> i]

\* variant: of two different Specific hints the left one is kept
combine_KeepsLeft(self, other) ==
    IF self = other THEN self
    ELSE IF self.tag = "Specific" THEN self
    ELSE IF other.tag = "Specific" THEN other
    ELSE IF self.tag = "Other" \/ other.tag = "Other" THEN Other
    ELSE Same

\* variant: Other is tested before the single Specific
combine_OtherFirst(self, other) ==
    IF self = other THEN self
    ELSE IF self.tag = "Specific" /\ other.tag = "Specific" THEN Other
    ELSE IF self.tag = "Other" \/ other.tag = "Other" THEN Other
    ELSE IF self.tag = "Specific" THEN self
    ELSE IF other.tag = "Specific" THEN other
    ELSE Same

\* the match of NextTask::combine, arm by arm
combine(self, other) ==
    IF self = other THEN self
    ELSE IF self.tag = "Specific" /\ other.tag = "Specific" THEN Other
    ELSE IF self.tag = "Specific" THEN self
    ELSE IF other.tag = "Specific" THEN other
    ELSE IF self.tag = "Other" \/ other.tag = "Other" THEN Other
    ELSE Same

(***************************************************************************)
(* process_timers.                                                         *)
(***************************************************************************)
\* variant: a deadline equal to the current time does not fire
RECURSIVE TimerLoop_StrictlyBefore(_, _, _, _)
TimerLoop_StrictlyBefore(tasks, index, current_time, sched_hint) ==
    IF index \notin DOMAIN tasks THEN [tasks |-> tasks, ret |-> sched_hint]
    ELSE LET task == tasks[index]
         IN  IF task.timer.deadline.some
                /\ task.timer.deadline.val < current_time
             THEN LET t1 == [task EXCEPT !.timer.deadline = None]
                      r == post(t1, t1.timer.to_post)
                      task_hint == IF r.ret THEN Specific(index) ELSE Same
                  IN  TimerLoop_StrictlyBefore([tasks EXCEPT ![index] = r.task], index + 1,
                                current_time, combine(sched_hint, task_hint))
             ELSE TimerLoop_StrictlyBefore(tasks, index + 1, current_time, sched_hint)

\* variant: every fired timer gives a Specific hint, woken or not
RECURSIVE TimerLoop_HintsEveryFire(_, _, _, _)
TimerLoop_HintsEveryFire(tasks, index, current_time, sched_hint) ==
    IF index \notin DOMAIN tasks THEN [tasks |-> tasks, ret |-> sched_hint]
    ELSE LET task == tasks[index]
         IN  IF task.timer.deadline.some
                /\ task.timer.deadline.val <= current_time
             THEN LET t1 == [task EXCEPT !.timer.deadline = None]
                      r == post(t1, t1.timer.to_post)
                      task_hint == Specific(index)
                  IN  TimerLoop_HintsEveryFire([tasks EXCEPT ![index] = r.task], index + 1,
                                current_time, combine(sched_hint, task_hint))
             ELSE TimerLoop_HintsEveryFire(tasks, index + 1, current_time, sched_hint)

\* variant: the deadline of a fired timer is left in place
RECURSIVE TimerLoop_KeepsDeadline(_, _, _, _)
TimerLoop_KeepsDeadline(tasks, index, current_time, sched_hint) ==
    IF index \notin DOMAIN tasks THEN [tasks |-> tasks, ret |-> sched_hint]
    ELSE LET task == tasks[index]
         IN  IF task.timer.deadline.some
                /\ task.timer.deadline.val <= current_time
             THEN LET t1 == task
                      r == post(t1, t1.timer.to_post)
                      task_hint == IF r.ret THEN Specific(index) ELSE Same
                  IN  TimerLoop_KeepsDeadline([tasks EXCEPT ![index] = r.task], index + 1,
                                current_time, combine(sched_hint, task_hint))
             ELSE TimerLoop_KeepsDeadline(tasks, index + 1, current_time, sched_hint)

\* the for loop of process_timers, from position index of the table
RECURSIVE TimerLoop(_, _, _, _)
TimerLoop(tasks, index, current_time, sched_hint) ==
    IF index \notin DOMAIN tasks THEN [tasks |-> tasks, ret |-> sched_hint]
    ELSE LET task == tasks[index]
         IN  IF task.timer.deadline.some
                /\ task.timer.deadline.val <= current_time
             THEN LET t1 == [task EXCEPT !.timer.deadline = None]
                      r == post(t1, t1.timer.to_post)
                      task_hint == IF r.ret THEN Specific(index) ELSE Same
                  IN  TimerLoop([tasks EXCEPT ![index] = r.task], index + 1,
                                current_time, combine(sched_hint, task_hint))
             ELSE TimerLoop(tasks, index + 1, current_time, sched_hint)

process_timers(tasks, current_time) == TimerLoop(tasks, 0, current_time, Same)

(***************************************************************************)
(* check_task_id_against_table and its results.                            *)
(***************************************************************************)
Ok(x) == [ok |-> TRUE, val |-> x]

Err(e) == [ok |-> FALSE, err |-> e]

\* abi::DEAD, the response code of a dead peer
DEAD == "DEAD"

\* FaultInfo::SyscallUsage(UsageError::TaskOutOfRange)
SyscallUsage_TaskOutOfRange ==
    [tag |-> "SyscallUsage", usage |-> "TaskOutOfRange"]

\* UserError::Recoverable(code, hint)
Recoverable(code, hint) == [tag |-> "Recoverable", code |-> code, hint |-> hint]

\* UserError::from(FaultInfo): a fault is a fatal error
Unrecoverable(fault) == [tag |-> "Unrecoverable", fault |-> fault]

\* variant: an index out of range is reported as a dead task
check_task_id_against_table_DeadOutOfRange(table, id) ==
    IF TaskID_index(id) >= Cardinality(DOMAIN table)
    THEN Err(Recoverable(DEAD, Same))
    ELSE IF table[TaskID_index(id)].generation # TaskID_generation(id)
         THEN Err(Recoverable(DEAD, Same))
         ELSE Ok(TaskID_index(id))

\* variant: the generation of the ID is not looked at
check_task_id_against_table_IgnoresGeneration(table, id) ==
    IF TaskID_index(id) >= Cardinality(DOMAIN table)
    THEN Err(Unrecoverable(SyscallUsage_TaskOutOfRange))
    ELSE Ok(TaskID_index(id))

check_task_id_against_table(table, id) ==
    IF TaskID_index(id) >= Cardinality(DOMAIN table)
    THEN Err(Unrecoverable(SyscallUsage_TaskOutOfRange))
    ELSE IF table[TaskID_index(id)].generation # TaskID_generation(id)
         THEN Err(Recoverable(DEAD, Same))
         ELSE Ok(TaskID_index(id))

(***************************************************************************)
(* State.                                                                  *)
(***************************************************************************)
VARIABLES
    tasks,               \* the task table: 0..len-1 -> Task
    current,             \* index of the task last scheduled
    FAULT_NOTIFICATION,  \* the supervisor notification word
    panicked,            \* the kernel has panicked
    last,                \* the last operation: its arguments, its result and
                         \* the table it was applied to
    trace,               \* results of the consecutive select calls made since
                         \* the table last changed (the latest MaxTasks)
    timer_event,         \* per task, what last happened to its timer:
                         \* "fresh" (TimerState::default()), "armed"
                         \* (set_timer with Some), "cancelled" (set_timer
                         \* with None) or "fired" (by process_timers)
    word_set,            \* the mask of the most recent call of
                         \* set_fault_notification, None before the first
    held                 \* the TaskID a peer holds: the ID, the index of the
                         \* task it was formed for and the number of reboots
                         \* of that task since; None while no ID is held

vars == <<tasks, current, FAULT_NOTIFICATION, panicked, last, trace, timer_event,
          word_set, held>>

(***************************************************************************)
(* Values the explorations draw from.                                      *)
(***************************************************************************)
\* bit 31 alone, as a high half
TopBit == Pow2(15)

NotificationValues ==
    {W(h, l) : h \in {0, TopBit}, l \in 0..(Pow2(NotifBits) - 1)}

\* the task ID of some peer: index 1, generation 0
PeerID == from_index_and_gen(1, 0)

SchedStates ==
    {Runnable, InRecv(None), InRecv(Some(PeerID)),
     InSend(PeerID), InReply(PeerID)}

TaskStates ==
    {Healthy(s) : s \in SchedStates}
    \cup {Faulted(s, "FaultA") : s \in {Runnable, InRecv(None)}}

\* the saved return registers of a task that has made syscalls before: they
\* hold the values of the earlier syscall
StaleSave ==
    LET r == W(57005, 48879)
    IN  [ret0 |-> r, ret1 |-> r, ret2 |-> r, ret3 |-> r, ret4 |-> r, ret5 |-> r]

NewTask(prio, st, pending, mask, sv, idx) ==
    [save |-> sv, priority |-> prio, state |-> st, timer |-> DefaultTimer,
     generation |-> 0, region_table |-> <<>>, notifications |-> pending,
     notification_mask |-> mask, descriptor |-> idx]

(***************************************************************************)
(* Operations.                                                             *)
(***************************************************************************)
Post(i, n) ==
    /\ ~panicked
    /\ LET r == post(tasks[i], n)
       IN  /\ tasks' = [tasks EXCEPT ![i] = r.task]
           /\ last' = [op |-> "post", index |-> i, n |-> n, ret |-> r.ret,
                       old |-> tasks]
    /\ trace' = << >>
    /\ UNCHANGED <<current, FAULT_NOTIFICATION, panicked, timer_event, word_set, held>>

UpdateMask(i, m) ==
    /\ ~panicked
    /\ LET r == update_mask(tasks[i], m)
       IN  /\ tasks' = [tasks EXCEPT ![i] = r.task]
           /\ last' = [op |-> "update_mask", index |-> i, m |-> m,
                       ret |-> r.ret, old |-> tasks]
    /\ trace' = << >>
    /\ UNCHANGED <<current, FAULT_NOTIFICATION, panicked, timer_event, word_set, held>>

AcknowledgeNotifications(i) ==
    /\ ~panicked
    /\ tasks' = [tasks EXCEPT ![i] = acknowledge_notifications(@)]
    /\ last' = [op |-> "acknowledge_notifications", index |-> i, old |-> tasks]
    /\ trace' = << >>
    /\ UNCHANGED <<current, FAULT_NOTIFICATION, panicked, timer_event, word_set, held>>

\* the kernel picks the next task: current = select(current, tasks)
Select ==
    /\ ~panicked
    /\ LET r == select(current, tasks)
           scan == priority_scan(current, tasks,
                                 [t \in {tasks[i] : i \in DOMAIN tasks} |->
                                     is_runnable(t)])
       IN  IF r.panic
           THEN /\ panicked' = TRUE
                /\ last' = [op |-> "select", previous |-> current,
                            panic |-> TRUE, scan |-> scan, old |-> tasks]
                /\ UNCHANGED <<current, trace>>
           ELSE /\ current' = r.index
                /\ last' = [op |-> "select", previous |-> current,
                            panic |-> FALSE, ret |-> r.index, scan |-> scan,
                            old |-> tasks]
                /\ trace' = IF Len(trace) < MaxTasks
                            THEN Append(trace, r.index)
                            ELSE Append(Tail(trace), r.index)
                /\ UNCHANGED panicked
    /\ UNCHANGED <<tasks, FAULT_NOTIFICATION, timer_event, word_set, held>>

SetTimer(i, deadline, n) ==
    /\ ~panicked
    /\ tasks' = [tasks EXCEPT ![i] = set_timer(@, deadline, n)]
    /\ timer_event' = [timer_event EXCEPT
                          ![i] = IF deadline.some THEN "armed" ELSE "cancelled"]
    /\ last' = [op |-> "set_timer", index |-> i, deadline |-> deadline,
                n |-> n, old |-> tasks, events |-> timer_event]
    /\ trace' = << >>
    /\ UNCHANGED <<current, FAULT_NOTIFICATION, panicked, word_set, held>>

\* the timer tick: process_timers(&mut tasks, current_time)
ProcessTimers(now) ==
    /\ ~panicked
    /\ LET r == process_timers(tasks, now)
       IN  /\ tasks' = r.tasks
           /\ last' = [op |-> "process_timers", now |-> now, ret |-> r.ret,
                       old |-> tasks, events |-> timer_event]
    /\ timer_event' = [i \in DOMAIN tasks |->
                          IF tasks[i].timer.deadline.some
                             /\ tasks[i].timer.deadline.val <= now
                          THEN "fired" ELSE timer_event[i]]
    /\ trace' = << >>
    /\ UNCHANGED <<current, FAULT_NOTIFICATION, panicked, word_set, held>>

\* the supervisor reboots task i
Reinitialize(i) ==
    /\ ~panicked
    /\ tasks' = [tasks EXCEPT ![i] = reinitialize(@)]
    /\ timer_event' = [timer_event EXCEPT ![i] = "fresh"]
    /\ held' = IF held.some /\ held.val.index = i
               THEN Some([held.val EXCEPT !.reboots = @ + 1])
               ELSE held
    /\ last' = [op |-> "reinitialize", index |-> i, old |-> tasks]
    /\ trace' = << >>
    /\ UNCHANGED <<current, FAULT_NOTIFICATION, panicked, word_set>>

(***************************************************************************)
(* Fault injection.                                                        *)
(***************************************************************************)
\* variant: a task that is already faulted keeps its first fault
force_fault_KeepsFirstFault(tasks_, index, fault) ==
    LET task == tasks_[index]
        state == IF task.state.tag = "Healthy"
                 THEN Faulted(task.state.sched, fault)
                 ELSE task.state
        t1 == [tasks_ EXCEPT ![index].state = state]
        r == post(t1[0], FAULT_NOTIFICATION)
    IN  [tasks |-> [t1 EXCEPT ![0] = r.task],
         ret |-> IF r.ret THEN Specific(0) ELSE Other]

\* variant: no hint at all when the supervisor was not woken
force_fault_SameWhenAsleep(tasks_, index, fault) ==
    LET task == tasks_[index]
        state == IF task.state.tag = "Healthy"
                 THEN Faulted(task.state.sched, fault)
                 ELSE Faulted(task.state.original_state, fault)
        t1 == [tasks_ EXCEPT ![index].state = state]
        r == post(t1[0], FAULT_NOTIFICATION)
    IN  [tasks |-> [t1 EXCEPT ![0] = r.task],
         ret |-> IF r.ret THEN Specific(0) ELSE Same]

\* variant: the supervisor is posted before the task is faulted
force_fault_PostsFirst(tasks_, index, fault) ==
    LET r == post(tasks_[0], FAULT_NOTIFICATION)
        t1 == [tasks_ EXCEPT ![0] = r.task]
        task == t1[index]
        state == IF task.state.tag = "Healthy"
                 THEN Faulted(task.state.sched, fault)
                 ELSE Faulted(task.state.original_state, fault)
    IN  [tasks |-> [t1 EXCEPT ![index].state = state],
         ret |-> IF r.ret THEN Specific(0) ELSE Other]

\* variant: the timer of the faulted task is disabled
force_fault_DisarmsTimer(tasks_, index, fault) ==
    LET task == tasks_[index]
        state == IF task.state.tag = "Healthy"
                 THEN Faulted(task.state.sched, fault)
                 ELSE Faulted(task.state.original_state, fault)
        t1 == [tasks_ EXCEPT ![index].state = state,
                             ![index].timer = DefaultTimer]
        r == post(t1[0], FAULT_NOTIFICATION)
    IN  [tasks |-> [t1 EXCEPT ![0] = r.task],
         ret |-> IF r.ret THEN Specific(0) ELSE Other]

\* variant: the supervisor is posted every notification bit
force_fault_PostsEveryBit(tasks_, index, fault) ==
    LET task == tasks_[index]
        state == IF task.state.tag = "Healthy"
                 THEN Faulted(task.state.sched, fault)
                 ELSE Faulted(task.state.original_state, fault)
        t1 == [tasks_ EXCEPT ![index].state = state]
        r == post(t1[0], WNot(Zero32))
    IN  [tasks |-> [t1 EXCEPT ![0] = r.task],
         ret |-> IF r.ret THEN Specific(0) ELSE Other]

\* tasks_ is the table passed in; the supervisor is task 0
force_fault(tasks_, index, fault) ==
    LET task == tasks_[index]
        state == IF task.state.tag = "Healthy"
                 THEN Faulted(task.state.sched, fault)
                 ELSE Faulted(task.state.original_state, fault)
        t1 == [tasks_ EXCEPT ![index].state = state]
        r == post(t1[0], FAULT_NOTIFICATION)
    IN  [tasks |-> [t1 EXCEPT ![0] = r.task],
         ret |-> IF r.ret THEN Specific(0) ELSE Other]

ForceFault(i, fault) ==
    /\ ~panicked
    /\ LET r == force_fault(tasks, i, fault)
       IN  /\ tasks' = r.tasks
           /\ last' = [op |-> "force_fault", index |-> i, fault |-> fault,
                       ret |-> r.ret, old |-> tasks,
                       word |-> FAULT_NOTIFICATION]
    /\ trace' = << >>
    /\ UNCHANGED <<current, FAULT_NOTIFICATION, panicked, timer_event, word_set, held>>

\* set_fault_notification(mask)
SetFaultNotification(mask) ==
    /\ ~panicked
    /\ FAULT_NOTIFICATION' = mask
    /\ word_set' = Some(mask)
    /\ last' = [op |-> "set_fault_notification", mask |-> mask, old |-> tasks]
    /\ UNCHANGED <<tasks, current, panicked, trace, timer_event, held>>

(***************************************************************************)
(* Task IDs.                                                               *)
(***************************************************************************)
\* a peer forms the ID of task i in its current incarnation and keeps it
HoldTaskID(i) ==
    /\ ~panicked
    /\ ~held.some
    /\ held' = Some([id |-> from_index_and_gen(i, tasks[i].generation),
                     index |-> i, generation |-> tasks[i].generation,
                     reboots |-> 0])
    /\ last' = [op |-> "hold", index |-> i, old |-> tasks]
    /\ UNCHANGED <<tasks, current, FAULT_NOTIFICATION, panicked, trace,
                   timer_event, word_set>>

\* a syscall names a task: check_task_id_against_table(&tasks, id)
CheckTaskID(id) ==
    /\ ~panicked
    /\ last' = [op |-> "check_task_id_against_table", id |-> id,
                ret |-> check_task_id_against_table(tasks, id),
                old |-> tasks]
    /\ UNCHANGED <<tasks, current, FAULT_NOTIFICATION, panicked, trace,
                   timer_event, word_set, held>>

\* TaskID::from_index_and_gen on the inputs drawn at the start, and the two
\* accessors on its result
FromIndexAndGen ==
    /\ last.op = "init"
    /\ LET id == from_index_and_gen(last.index, last.gen)
       IN  last' = [op |-> "from_index_and_gen", index |-> last.index,
                    gen |-> last.gen, id |-> id,
                    id_index |-> TaskID_index(id),
                    id_generation |-> TaskID_generation(id)]
    /\ UNCHANGED <<tasks, current, FAULT_NOTIFICATION, panicked, trace,
                   timer_event, word_set, held>>

(***************************************************************************)
(* Syscall argument decoding.                                              *)
(***************************************************************************)
\* the kernel decodes the TIMER arguments of task i: save.as_timer_args()
DecodeTimerArgs(i) ==
    /\ ~panicked
    /\ last' = [op |-> "as_timer_args", index |-> i,
                deadline |-> AsTimerArgs_deadline(tasks[i].save),
                notification |-> AsTimerArgs_notification(tasks[i].save),
                old |-> tasks]
    /\ UNCHANGED <<tasks, current, FAULT_NOTIFICATION, panicked, trace,
                   timer_event, word_set, held>>

(***************************************************************************)
(* Memory access checks.                                                   *)
(***************************************************************************)
\* the kernel validates the slice drawn at the start against task 0
CanAccess ==
    /\ last.op = "init"
    /\ last' = [op |-> "can_access", slice |-> last.slice,
                can_read |-> can_read(tasks[0], last.slice),
                can_write |-> can_write(tasks[0], last.slice),
                old |-> tasks]
    /\ UNCHANGED <<tasks, current, FAULT_NOTIFICATION, panicked, trace,
                   timer_event, word_set, held>>

(***************************************************************************)
(* SpecNotify: the notification engine on one task.  The task starts in    *)
(* any lifecycle state, with any pending bits and mask; a task left in     *)
(* open receive by the kernel has no firing bit.                           *)
(***************************************************************************)
InitNotify ==
    /\ \E st \in TaskStates, p \in NotificationValues,
          m \in NotificationValues :
          /\ st = Healthy(InRecv(None)) => WAnd(p, m) = Zero32
          /\ tasks = [i \in 0..0 |-> NewTask(0, st, p, m, StaleSave, i)]
    /\ current = 0
    /\ FAULT_NOTIFICATION = Zero32
    /\ panicked = FALSE
    /\ last = [op |-> "init"]
    /\ trace = << >>
    /\ timer_event = [i \in DOMAIN tasks |-> "fresh"]
    /\ word_set = None
    /\ held = None

NextNotify ==
    \/ \E i \in DOMAIN tasks, n \in NotificationValues : Post(i, n)
    \/ \E i \in DOMAIN tasks, m \in NotificationValues : UpdateMask(i, m)
    \/ \E i \in DOMAIN tasks : AcknowledgeNotifications(i)

SpecNotify == InitNotify /\ [][NextNotify]_vars

(***************************************************************************)
(* SpecSched: the scheduler on a fixed table.  Every table of 1..MaxTasks  *)
(* tasks, every assignment of priorities, every mix of runnable, blocked   *)
(* and faulted tasks, every previous index within the table.               *)
(***************************************************************************)
SchedTaskStates ==
    {Healthy(Runnable), Healthy(InRecv(None)), Faulted(Runnable, "FaultA")}

InitSched ==
    /\ \E len \in 1..MaxTasks :
          /\ \E prio \in [0..(len - 1) -> 0..MaxPrio],
                st \in [0..(len - 1) -> SchedTaskStates] :
                tasks = [i \in 0..(len - 1) |->
                            NewTask(prio[i], st[i], Zero32, Zero32,
                                    StaleSave, i)]
          /\ current \in 0..(len - 1)
    /\ FAULT_NOTIFICATION = Zero32
    /\ panicked = FALSE
    /\ last = [op |-> "init"]
    /\ trace = << >>
    /\ timer_event = [i \in DOMAIN tasks |-> "fresh"]
    /\ word_set = None
    /\ held = None

NextSched == Select

SpecSched == InitSched /\ [][NextSched]_vars

(***************************************************************************)
(* SpecSelectFrom: the scheduler called with any previous index, within    *)
(* the table or beyond it, up to MaxTasks.  The tables are those of        *)
(* SpecSched.                                                              *)
(***************************************************************************)
InitSelectFrom ==
    /\ \E len \in 1..MaxTasks :
          \E prio \in [0..(len - 1) -> 0..MaxPrio],
             st \in [0..(len - 1) -> SchedTaskStates] :
             tasks = [i \in 0..(len - 1) |->
                         NewTask(prio[i], st[i], Zero32, Zero32, StaleSave, i)]
    /\ current \in 0..MaxTasks
    /\ FAULT_NOTIFICATION = Zero32
    /\ panicked = FALSE
    /\ last = [op |-> "init"]
    /\ trace = << >>
    /\ timer_event = [i \in DOMAIN tasks |-> "fresh"]
    /\ word_set = None
    /\ held = None

NextSelectFrom == Select

SpecSelectFrom == InitSelectFrom /\ [][NextSelectFrom]_vars

(***************************************************************************)
(* SpecTimer: the timer tick on tables of 1..MaxTasks tasks.  Every task   *)
(* is in open receive or runnable, listens to bit 0, and has a timer that  *)
(* is disabled or armed for some tick with bit 0 or bit 31 to post.        *)
(***************************************************************************)
Deadlines == {None} \cup {Some(t) : t \in 1..MaxTime}

TimerTaskStates == {Healthy(InRecv(None)), Healthy(Runnable)}

TimerBits == {W(0, 1), W(TopBit, 0)}

InitTimer ==
    /\ \E len \in 1..MaxTasks :
          \E st \in [0..(len - 1) -> TimerTaskStates],
             dl \in [0..(len - 1) -> Deadlines],
             tp \in [0..(len - 1) -> TimerBits] :
             tasks = [i \in 0..(len - 1) |->
                         set_timer(NewTask(0, st[i], Zero32, W(0, 1), StaleSave, i),
                                   dl[i], tp[i])]
    /\ current = 0
    /\ FAULT_NOTIFICATION = Zero32
    /\ panicked = FALSE
    /\ last = [op |-> "init"]
    /\ trace = << >>
    /\ timer_event = [i \in DOMAIN tasks |->
                         IF tasks[i].timer.deadline.some THEN "armed"
                         ELSE "cancelled"]
    /\ word_set = None
    /\ held = None

NextTimer == \E now \in 0..MaxTime : ProcessTimers(now)

SpecTimer == InitTimer /\ [][NextTimer]_vars

(***************************************************************************)
(* SpecTimerArm: arming, cancelling and firing the timer of one task, and  *)
(* rebooting the task.  The task starts freshly initialized but for its    *)
(* state and mask.                                                         *)
(***************************************************************************)
InitTimerArm ==
    /\ \E st \in TimerTaskStates, m \in {Zero32, W(0, 1)} :
          tasks = [i \in 0..0 |-> NewTask(0, st, Zero32, m, StaleSave, i)]
    /\ current = 0
    /\ FAULT_NOTIFICATION = Zero32
    /\ panicked = FALSE
    /\ last = [op |-> "init"]
    /\ trace = << >>
    /\ timer_event = [i \in DOMAIN tasks |-> "fresh"]
    /\ word_set = None
    /\ held = None

NextTimerArm ==
    \/ \E i \in DOMAIN tasks, d \in Deadlines, n \in NotificationValues :
          SetTimer(i, d, n)
    \/ \E now \in 0..MaxTime : ProcessTimers(now)
    \/ \E i \in DOMAIN tasks :
          tasks[i].generation < MaxReboots /\ Reinitialize(i)

SpecTimerArm == InitTimerArm /\ [][NextTimerArm]_vars

(***************************************************************************)
(* SpecFault: faults forced on the tasks of tables of 1..MaxTasks tasks.   *)
(* Task 0 is the supervisor, runnable or in open receive, listening to bit *)
(* 0 or to nothing; the other tasks are healthy, running or blocked in a   *)
(* closed receive, with an armed timer, a pending bit outside their mask   *)
(* and a priority of their own.  The fault notification word starts at     *)
(* zero.                                                                   *)
(***************************************************************************)
FaultValues == {"FaultA", "FaultB"}

\* the supervisor waits in open receive or runs
SupervisorStates == {Healthy(Runnable), Healthy(InRecv(None))}

\* the other tasks run or wait for a message of a peer
FaultTaskStates == {Healthy(Runnable), Healthy(InRecv(Some(PeerID)))}

InitFault ==
    /\ \E len \in 1..MaxTasks :
          \E st \in [0..(len - 1) -> FaultTaskStates],
             sup \in SupervisorStates,
             m \in {Zero32, W(0, 1)} :
             tasks = [i \in 0..(len - 1) |->
                         IF i = 0
                         THEN NewTask(0, sup, Zero32, m, StaleSave, i)
                         ELSE set_timer(NewTask(i, st[i], W(TopBit, 0), W(0, 1),
                                                StaleSave, i),
                                        Some(MaxTime), W(0, 1))]
    /\ current = 0
    /\ FAULT_NOTIFICATION = Zero32
    /\ panicked = FALSE
    /\ last = [op |-> "init"]
    /\ trace = << >>
    /\ timer_event = [i \in DOMAIN tasks |->
                         IF tasks[i].timer.deadline.some THEN "armed"
                         ELSE "fresh"]
    /\ word_set = None
    /\ held = None

NextFault ==
    \/ \E i \in DOMAIN tasks, f \in FaultValues : ForceFault(i, f)
    \/ \E m \in {Zero32, W(0, 1)} : SetFaultNotification(m)

SpecFault == InitFault /\ [][NextFault]_vars

(***************************************************************************)
(* SpecKernel: every operation of the kernel on a table of two tasks.      *)
(* Task 0 is the supervisor, running or in open receive; task 1 is a       *)
(* worker, which starts healthy, running or in open receive, and is the    *)
(* target of the operations on one task.  Either can be faulted, with one  *)
(* kind of fault.  The worker is in its last incarnation before the        *)
(* generation wraps, and its reboots stop once its generation is           *)
(* MaxReboots.                                                             *)
(***************************************************************************)
Worker == 1

KernelBits == {W(0, 1)}

InitKernel ==
    /\ \E st \in TimerTaskStates, sup \in SupervisorStates :
          tasks = [i \in 0..Worker |->
                      IF i = Worker
                      THEN [NewTask(1, st, Zero32, W(0, 1), StaleSave, i)
                               EXCEPT !.generation = GEN_MASK,
                                      !.region_table =
                                          <<[base |-> 0, size |-> 2,
                                             attributes |-> {"READ"}]>>]
                      ELSE NewTask(0, sup, Zero32, W(0, 1), StaleSave, i)]
    /\ current = 0
    /\ FAULT_NOTIFICATION = Zero32
    /\ panicked = FALSE
    /\ last = [op |-> "init"]
    /\ trace = << >>
    /\ timer_event = [i \in DOMAIN tasks |-> "fresh"]
    /\ word_set = None
    /\ held = None

NextKernel ==
    \/ \E n \in {Zero32} \cup KernelBits : Post(Worker, n)
    \/ \E m \in {Zero32} \cup KernelBits : UpdateMask(Worker, m)
    \/ AcknowledgeNotifications(Worker)
    \/ \E n \in KernelBits : SetTimer(Worker, Some(MaxTime), n)
    \/ ProcessTimers(MaxTime)
    \/ \E i \in DOMAIN tasks : ForceFault(i, "FaultA")
    \/ \E m \in {Zero32} \cup KernelBits : SetFaultNotification(m)
    \/ Select
    \/ tasks[Worker].generation # MaxReboots /\ Reinitialize(Worker)

SpecKernel == InitKernel /\ [][NextKernel]_vars

(***************************************************************************)
(* SpecReboot: a peer forms the ID of the worker, in whichever incarnation *)
(* the worker is, and uses it in syscalls while the worker is rebooted     *)
(* again and again, up to MaxStaleReboots times after the ID was formed.   *)
(***************************************************************************)
InitReboot ==
    /\ tasks = [i \in 0..Worker |->
                   NewTask(0, Healthy(Runnable), Zero32, Zero32, EntrySave, i)]
    /\ current = 0
    /\ FAULT_NOTIFICATION = Zero32
    /\ panicked = FALSE
    /\ last = [op |-> "init"]
    /\ trace = << >>
    /\ timer_event = [i \in DOMAIN tasks |-> "fresh"]
    /\ word_set = None
    /\ held = None

NextReboot ==
    \/ HoldTaskID(Worker)
    \/ /\ held.some => held.val.reboots < MaxStaleReboots
       /\ Reinitialize(Worker)
    \/ held.some /\ CheckTaskID(held.val.id)

SpecReboot == InitReboot /\ [][NextReboot]_vars

(***************************************************************************)
(* SpecPack: TaskID::from_index_and_gen on every index of 10 bits and      *)
(* every generation of 6 bits, and the accessors on the ID it makes.       *)
(***************************************************************************)
Indexes == 0..IDX_MASK

Generations == 0..GEN_MASK

\* every ID that from_index_and_gen makes
TaskIDs == {from_index_and_gen(i, g) : i \in Indexes, g \in Generations}

InitPack ==
    /\ tasks = [i \in 0..0 |->
                   NewTask(0, Healthy(Runnable), Zero32, Zero32, EntrySave, i)]
    /\ current = 0
    /\ FAULT_NOTIFICATION = Zero32
    /\ panicked = FALSE
    /\ \E i \in Indexes, g \in Generations :
          last = [op |-> "init", index |-> i, gen |-> g]
    /\ trace = << >>
    /\ timer_event = [i \in DOMAIN tasks |-> "fresh"]
    /\ word_set = None
    /\ held = None

NextPack == FromIndexAndGen

SpecPack == InitPack /\ [][NextPack]_vars

(***************************************************************************)
(* SpecTaskID: syscalls naming tasks by ID, on tables of 1..MaxTasks tasks *)
(* in their first, second or last incarnation.  The IDs name every slot of *)
(* the longest table and the one after it, in the same incarnations, or    *)
(* are the KERNEL sentinel.                                                *)
(***************************************************************************)
Incarnations == {0, 1, GEN_MASK}

ProbeIDs ==
    {from_index_and_gen(i, g) : i \in 0..MaxTasks, g \in Incarnations}
    \cup {KERNEL}

InitTaskID ==
    /\ \E n \in 1..MaxTasks :
          \E gen \in [0..(n - 1) -> Incarnations] :
             tasks = [i \in 0..(n - 1) |->
                         [NewTask(0, Healthy(Runnable), Zero32, Zero32,
                                  EntrySave, i)
                             EXCEPT !.generation = gen[i]]]
    /\ current = 0
    /\ FAULT_NOTIFICATION = Zero32
    /\ panicked = FALSE
    /\ last = [op |-> "init"]
    /\ trace = << >>
    /\ timer_event = [i \in DOMAIN tasks |-> "fresh"]
    /\ word_set = None
    /\ held = None

NextTaskID == \E id \in ProbeIDs : CheckTaskID(id)

SpecTaskID == InitTaskID /\ [][NextTaskID]_vars

(***************************************************************************)
(* SpecSentinel: syscalls naming the KERNEL sentinel, on a table of one    *)
(* task, of MaxTasks tasks, and on the two longest tables whose slots all  *)
(* have an ID: 2^IDX_BITS - 1 and 2^IDX_BITS tasks.  The task in the last  *)
(* slot is rebooted any number of times.                                   *)
(***************************************************************************)
TableLengths == {1, MaxTasks, Pow2(IDX_BITS) - 1, Pow2(IDX_BITS)}

InitSentinel ==
    /\ \E n \in TableLengths :
          tasks = [i \in 0..(n - 1) |->
                      NewTask(0, Healthy(Runnable), Zero32, Zero32, EntrySave, i)]
    /\ current = 0
    /\ FAULT_NOTIFICATION = Zero32
    /\ panicked = FALSE
    /\ last = [op |-> "init"]
    /\ trace = << >>
    /\ timer_event = [i \in DOMAIN tasks |-> "fresh"]
    /\ word_set = None
    /\ held = None

NextSentinel ==
    \/ Reinitialize(Cardinality(DOMAIN tasks) - 1)
    \/ CheckTaskID(KERNEL)

SpecSentinel == InitSentinel /\ [][NextSentinel]_vars

(***************************************************************************)
(* SpecRegion: can_read and can_write of one task on every slice of        *)
(* base and length 0..MaxAddr.  The task has a table of zero, one or two   *)
(* regions of two bytes, at address 0 or 2, with any attributes.           *)
(***************************************************************************)
Attributes == SUBSET {"READ", "WRITE", "DEVICE"}

Regions ==
    {[base |-> b, size |-> 2, attributes |-> a] : b \in {0, 2}, a \in Attributes}

RegionTables ==
    {<< >>} \cup {<<r>> : r \in Regions}
            \cup {<<r1, r2>> : r1 \in Regions, r2 \in Regions}

Slices == {[base |-> b, len |-> l] : b \in 0..MaxAddr, l \in 0..MaxAddr}

InitRegion ==
    /\ \E rt \in RegionTables :
          tasks = [i \in 0..0 |->
                      [NewTask(0, Healthy(Runnable), Zero32, Zero32, EntrySave, i)
                          EXCEPT !.region_table = rt]]
    /\ current = 0
    /\ FAULT_NOTIFICATION = Zero32
    /\ panicked = FALSE
    /\ \E sl \in Slices : last = [op |-> "init", slice |-> sl]
    /\ trace = << >>
    /\ timer_event = [i \in DOMAIN tasks |-> "fresh"]
    /\ word_set = None
    /\ held = None

NextRegion == CanAccess

SpecRegion == InitRegion /\ [][NextRegion]_vars

(***************************************************************************)
(* SpecTimerArgs: decoding the TIMER arguments of a task whose argument    *)
(* registers 0..3 hold any of a few words: zero, bit 0, bit 31 and a word  *)
(* with four different bytes.                                              *)
(***************************************************************************)
ArgValues == {Zero32, W(0, 1), W(TopBit, 0), W(43981, 4660)}

InitTimerArgs ==
    /\ \E a0 \in ArgValues, a1 \in ArgValues, a2 \in ArgValues,
          a3 \in ArgValues :
          tasks = [i \in 0..0 |->
                      [NewTask(0, Healthy(Runnable), Zero32, Zero32, StaleSave, i)
                          EXCEPT !.save = [arg0 |-> a0, arg1 |-> a1,
                                           arg2 |-> a2, arg3 |-> a3]
                                          @@ StaleSave]]
    /\ current = 0
    /\ FAULT_NOTIFICATION = Zero32
    /\ panicked = FALSE
    /\ last = [op |-> "init"]
    /\ trace = << >>
    /\ timer_event = [i \in DOMAIN tasks |-> "fresh"]
    /\ word_set = None
    /\ held = None

NextTimerArgs == \E i \in DOMAIN tasks : DecodeTimerArgs(i)

SpecTimerArgs == InitTimerArgs /\ [][NextTimerArgs]_vars

(***************************************************************************)
(* SpecCombine: NextTask::combine on every pair of hints, and the two ways *)
(* of folding three hints.                                                 *)
(***************************************************************************)
Hints == {Same, Other} \cup {Specific(i) : i \in 0..(MaxTasks - 1)}

Combine(a, b, c) ==
    /\ ~panicked
    /\ last' = [op |-> "combine", a |-> a, b |-> b, c |-> c,
                ret |-> combine(a, b),
                left |-> combine(combine(a, b), c),
                right |-> combine(a, combine(b, c))]
    /\ UNCHANGED <<tasks, current, FAULT_NOTIFICATION, panicked, trace, timer_event,
                   word_set, held>>

InitCombine ==
    /\ tasks = [i \in 0..0 |->
                   NewTask(0, Healthy(Runnable), Zero32, Zero32, StaleSave, i)]
    /\ current = 0
    /\ FAULT_NOTIFICATION = Zero32
    /\ panicked = FALSE
    /\ last = [op |-> "init"]
    /\ trace = << >>
    /\ timer_event = [i \in DOMAIN tasks |-> "fresh"]
    /\ word_set = None
    /\ held = None

NextCombine == \E a \in Hints, b \in Hints, c \in Hints : Combine(a, b, c)

SpecCombine == InitCombine /\ [][NextCombine]_vars

(***************************************************************************)
(* Properties of the notification engine (checked under SpecNotify).       *)
(***************************************************************************)

\* C1: a post to a task in Healthy(InRecv(None)) with (old_pending | n) & mask
\* non-zero returns true, leaves the task Healthy(Runnable) and writes the
\* recv result ret0 = 0, ret1 = 0xFFFF (KERNEL), ret2 = (old_pending | n) & mask
\* as it was before the acknowledgement, ret3 = ret4 = ret5 = 0.
C1_PostWakesOpenReceive ==
    last.op = "post" =>
        LET old == last.old[last.index]
            new == tasks[last.index]
            firing == WAnd(WOr(old.notifications, last.n), old.notification_mask)
        IN  (old.state = Healthy(InRecv(None)) /\ firing # Zero32) =>
                /\ last.ret = TRUE
                /\ new.state = Healthy(Runnable)
                /\ new.save = [ret0 |-> Zero32, ret1 |-> W(0, 65535),
                               ret2 |-> firing, ret3 |-> Zero32,
                               ret4 |-> Zero32, ret5 |-> Zero32]

\* the wake of S1 on bits 0 and 31: mask = bit 0, nothing pending, a post of
\* both bits wakes the task with operation = bit 0 and leaves bit 31 pending
C1_Witness ==
    /\ last.op = "post"
    /\ last.ret = TRUE
    /\ last.old[last.index].state = Healthy(InRecv(None))
    /\ last.old[last.index].notifications = Zero32
    /\ last.old[last.index].notification_mask = W(0, 1)
    /\ last.n = W(TopBit, 1)
    /\ tasks[last.index].save.ret2 = W(0, 1)
    /\ tasks[last.index].notifications = W(TopBit, 0)

\* C2 as stated: post(T, 0) returns false and does not change the task's
\* state, for every task T.
C2_Original ==
    (last.op = "post" /\ last.n = Zero32) =>
        /\ last.ret = FALSE
        /\ tasks[last.index].state = last.old[last.index].state

\* C2 amended: post(T, 0) returns false and leaves the task unchanged, except
\* when T is in Healthy(InRecv(None)) with pending & mask non-zero; then, and
\* only then, it returns true (and wakes T).
C2_PostEmpty ==
    (last.op = "post" /\ last.n = Zero32) =>
        LET old == last.old[last.index]
            new == tasks[last.index]
            wakes == /\ old.state = Healthy(InRecv(None))
                     /\ WAnd(old.notifications, old.notification_mask) # Zero32
        IN  /\ last.ret = wakes
            /\ ~wakes => new = old
            /\ wakes => new.state = Healthy(Runnable)

\* an empty post to a task in open receive that has only masked bits pending
C2_Witness ==
    /\ last.op = "post"
    /\ last.n = Zero32
    /\ last.ret = FALSE
    /\ last.old[last.index].state = Healthy(InRecv(None))
    /\ last.old[last.index].notifications # Zero32
    /\ tasks[last.index].state = Healthy(InRecv(None))

\* C3: a post to a task in any state other than Healthy(InRecv(None)) returns
\* false and leaves the task state unchanged.
C3_PostOtherStates ==
    last.op = "post" =>
        LET old == last.old[last.index]
            new == tasks[last.index]
        IN  old.state # Healthy(InRecv(None)) =>
                /\ last.ret = FALSE
                /\ new.state = old.state

\* a firing post to a task in a closed receive
C3_Witness ==
    /\ last.op = "post"
    /\ last.old[last.index].state = Healthy(InRecv(Some(PeerID)))
    /\ WAnd(tasks[last.index].notifications,
            tasks[last.index].notification_mask) # Zero32
    /\ last.ret = FALSE

\* C4: post loses no bit: when it returns false pending = old_pending | n;
\* when it returns true pending = (old_pending | n) & ~mask and the bits
\* removed from old_pending | n are exactly the operation field (ret2).
C4_PostLosesNoBit ==
    last.op = "post" =>
        LET old == last.old[last.index]
            new == tasks[last.index]
            all == WOr(old.notifications, last.n)
        IN  /\ ~last.ret => new.notifications = all
            /\ last.ret =>
                /\ new.notifications = WAnd(all, WNot(old.notification_mask))
                /\ WAnd(all, WNot(new.notifications)) = new.save.ret2
                /\ WOr(new.notifications, new.save.ret2) = all

\* a wake that delivers some bits and keeps others pending, bit 31 included
C4_Witness ==
    /\ last.op = "post"
    /\ last.ret = TRUE
    /\ tasks[last.index].notifications.lo # 0
    /\ tasks[last.index].save.ret2.hi = TopBit

\* C5: if (old_pending | n) & mask = 0 then post returns false and leaves the
\* state unchanged, also in Healthy(InRecv(None)); the posted bits stay in the
\* pending bitmap and a later update_mask(m) reports (old_pending | n) & m.
C5_MaskedStaysPending ==
    last.op = "post" =>
        LET old == last.old[last.index]
            new == tasks[last.index]
            all == WOr(old.notifications, last.n)
        IN  WAnd(all, old.notification_mask) = Zero32 =>
                /\ last.ret = FALSE
                /\ new.state = old.state
                /\ new.notifications = all
                /\ \A m \in NotificationValues :
                      update_mask(new, m).ret =
                          IF WAnd(all, m) # Zero32 THEN Some(WAnd(all, m))
                          ELSE None

\* a post of masked bits to a task in open receive
C5_Witness ==
    /\ last.op = "post"
    /\ last.n # Zero32
    /\ last.old[last.index].state = Healthy(InRecv(None))
    /\ last.old[last.index].notification_mask # Zero32
    /\ last.ret = FALSE
    /\ tasks[last.index].notifications = last.n

\* C6: update_mask(task, m) sets the mask to m, returns Some(pending & m) when
\* pending & m is non-zero and None otherwise, and changes nothing else: the
\* pending bitmap and the task state are as before.
C6_UpdateMask ==
    last.op = "update_mask" =>
        LET old == last.old[last.index]
            new == tasks[last.index]
            firing == WAnd(old.notifications, last.m)
        IN  /\ new = [old EXCEPT !.notification_mask = last.m]
            /\ new.notifications = old.notifications
            /\ new.state = old.state
            /\ firing # Zero32 => last.ret = Some(firing)
            /\ firing = Zero32 => last.ret = None
            /\ last.ret # Some(Zero32)

\* update_mask exposes pending bits of a task in open receive: they are
\* reported, the task is not woken and the bits stay pending
C6_Witness ==
    /\ last.op = "update_mask"
    /\ last.ret.some
    /\ tasks[last.index].state = Healthy(InRecv(None))
    /\ WAnd(tasks[last.index].notifications, last.m) # Zero32

\* C7: acknowledge_notifications sets pending to pending & ~mask: afterwards
\* pending & mask = 0, the pending bits outside the mask are as before, and a
\* second call changes nothing.
C7_Acknowledge ==
    last.op = "acknowledge_notifications" =>
        LET old == last.old[last.index]
            new == tasks[last.index]
            mask == old.notification_mask
        IN  /\ new = [old EXCEPT !.notifications = WAnd(old.notifications, WNot(mask))]
            /\ WAnd(new.notifications, new.notification_mask) = Zero32
            /\ WAnd(new.notifications, WNot(mask)) = WAnd(old.notifications, WNot(mask))
            /\ acknowledge_notifications(new) = new

\* an acknowledgement that clears some bits and keeps others
C7_Witness ==
    /\ last.op = "acknowledge_notifications"
    /\ WAnd(last.old[last.index].notifications,
            last.old[last.index].notification_mask) # Zero32
    /\ tasks[last.index].notifications # Zero32

(***************************************************************************)
(* Properties of the scheduler (checked under SpecSched).                  *)
(***************************************************************************)

\* C8: when at least one task is runnable and previous is within the table,
\* select returns the index of a runnable task, and no runnable task of the
\* table has a priority strictly more important (numerically lower) than it.
C8_SelectMostImportant ==
    last.op = "select" =>
        LET old == last.old
        IN  (\E j \in DOMAIN old : old[j].state = Healthy(Runnable)) =>
                /\ ~last.panic
                /\ last.ret \in DOMAIN old
                /\ old[last.ret].state = Healthy(Runnable)
                /\ \A j \in DOMAIN old :
                      old[j].state = Healthy(Runnable) =>
                          ~(old[j].priority < old[last.ret].priority)

\* S4 scaled to the priority range: priorities [2, 0, 1], all runnable, and
\* select returns 1 although 1 was the previous task
C8_Witness ==
    /\ last.op = "select"
    /\ DOMAIN tasks = 0..2
    /\ \A j \in DOMAIN tasks : tasks[j].state = Healthy(Runnable)
    /\ tasks[0].priority = 2 /\ tasks[1].priority = 0 /\ tasks[2].priority = 1
    /\ last.previous = 1
    /\ ~last.panic
    /\ last.ret = 1

\* C9: among the runnable tasks of the most important priority, select
\* returns the one that comes first in the cyclic order previous+1, ...,
\* len-1, 0, ..., previous.
C9_SelectTieBreak ==
    (last.op = "select" /\ ~last.panic) =>
        LET old == last.old
            len == Cardinality(DOMAIN old)
            runnable == {j \in DOMAIN old : old[j].state = Healthy(Runnable)}
            top == {j \in runnable :
                       \A h \in runnable : old[j].priority <= old[h].priority}
            dist(j) == (j + len - (last.previous + 1)) % len
        IN  /\ last.ret \in top
            /\ \A j \in top : dist(last.ret) <= dist(j)

\* S3: three runnable tasks of one priority, previous = 2: the scan wraps
\* around and returns 0
C9_Witness ==
    /\ last.op = "select"
    /\ DOMAIN tasks = 0..2
    /\ \A j \in DOMAIN tasks :
          tasks[j].state = Healthy(Runnable) /\ tasks[j].priority = 1
    /\ last.previous = 2
    /\ ~last.panic
    /\ last.ret = 0

\* C10: round robin.  While the table is unchanged and select is called with
\* previous = its last result, the results walk the runnable tasks of the
\* most important priority in cyclic index order: each result is the cyclic
\* successor of the one before within that set, and any k consecutive
\* results (k = size of the set) are k different tasks, i.e. the whole set.
C10_RoundRobin ==
    LET len == Cardinality(DOMAIN tasks)
        runnable == {j \in DOMAIN tasks : tasks[j].state = Healthy(Runnable)}
        top == {j \in runnable :
                   \A h \in runnable : tasks[j].priority <= tasks[h].priority}
        k == Cardinality(top)
        n == Len(trace)
        dist(a, b) == (b + len - (a + 1)) % len
    IN  /\ \A t \in 1..n : trace[t] \in top
        /\ \A t \in 1..(n - 1) :
              \A j \in top : dist(trace[t], trace[t + 1]) <= dist(trace[t], j)
        /\ n >= k => {trace[t] : t \in (n - k + 1)..n} = top

\* tasks 0 and 2 share the most important priority, task 1 is runnable at a
\* less important one: three calls return 2, 0, 2
C10_Witness ==
    /\ DOMAIN tasks = 0..2
    /\ \A j \in DOMAIN tasks : tasks[j].state = Healthy(Runnable)
    /\ tasks[0].priority = 1 /\ tasks[1].priority = 2 /\ tasks[2].priority = 1
    /\ trace = <<2, 0, 2>>

\* C11: only a task in Healthy(Runnable) is eligible: is_runnable holds of
\* exactly those tasks, select never returns a Faulted or blocked task
\* whatever its priority, and the tasks it passes over, faulted ones
\* included, stay in the table as they were (descriptor and region table
\* too).
C11_OnlyRunnableScheduled ==
    /\ \A j \in DOMAIN tasks :
          is_runnable(tasks[j]) <=> tasks[j].state = Healthy(Runnable)
    /\ last.op = "select" =>
          /\ ~last.panic =>
                /\ last.old[last.ret].state.tag # "Faulted"
                /\ last.old[last.ret].state = Healthy(Runnable)
          /\ DOMAIN tasks = DOMAIN last.old
          /\ \A j \in DOMAIN tasks :
                /\ tasks[j].state = last.old[j].state
                /\ tasks[j].descriptor = last.old[j].descriptor
                /\ tasks[j].region_table = last.old[j].region_table

\* the most important task is faulted (it was Runnable when it faulted), the
\* next one is blocked in receive, and select returns the least important
C11_Witness ==
    /\ last.op = "select"
    /\ DOMAIN tasks = 0..2
    /\ tasks[0].priority = 0 /\ tasks[0].state = Faulted(Runnable, "FaultA")
    /\ tasks[1].priority = 1 /\ tasks[1].state = Healthy(InRecv(None))
    /\ tasks[2].priority = 2 /\ tasks[2].state = Healthy(Runnable)
    /\ ~last.panic
    /\ last.ret = 2

C13_CombineCommutative ==
    last.op = "combine" =>
        /\ last.ret = combine(last.b, last.a)
        /\ last.a = last.b => last.ret = last.a

\* two Specific hints of different indices have been combined
C13_Witness ==
    /\ last.op = "combine"
    /\ last.a = Specific(0)
    /\ last.b = Specific(1)
    /\ last.ret = Other

\* C14: the rule table of combine: Specific(x) with Specific(y), x # y, gives
\* Other; Specific(x) with Same or with Other gives Specific(x), on either
\* side; Other with Same gives Other; Same with Same gives Same; equal
\* arguments give that value.
C14_CombineRules ==
    last.op = "combine" =>
        LET a == last.a
            b == last.b
            isSpecific(h) == h \notin {[tag |-> "Same"], [tag |-> "Other"]}
        IN  last.ret =
                IF a = b THEN a
                ELSE IF isSpecific(a) /\ isSpecific(b) THEN [tag |-> "Other"]
                ELSE IF isSpecific(a) THEN a
                ELSE IF isSpecific(b) THEN b
                ELSE [tag |-> "Other"]

\* Other combined with a Specific hint: the Specific hint is the result
C14_Witness ==
    /\ last.op = "combine"
    /\ last.a = Other
    /\ last.b = Specific(2)
    /\ last.ret = Specific(2)

(***************************************************************************)
(* Properties of the timer engine (checked under SpecTimer and             *)
(* SpecTimerArm).                                                          *)
(***************************************************************************)

\* C15: process_timers(tasks, now) fires exactly the timers with
\* deadline <= now: each such task gets deadline None and its to_post bits
\* posted through post, woken or not; afterwards no task has a
\* deadline <= now, and every task whose deadline was None or > now is
\* unchanged.
C15_FiresExactlyDue ==
    last.op = "process_timers" =>
        /\ DOMAIN tasks = DOMAIN last.old
        /\ \A i \in DOMAIN last.old :
              LET o == last.old[i]
                  nw == tasks[i]
                  due == o.timer.deadline.some /\ o.timer.deadline.val <= last.now
                  all == WOr(o.notifications, o.timer.to_post)
                  wakes == /\ o.state = Healthy(InRecv(None))
                           /\ WAnd(all, o.notification_mask) # Zero32
              IN  /\ due =>
                        /\ nw.timer = [deadline |-> None, to_post |-> o.timer.to_post]
                        /\ nw = post([o EXCEPT !.timer.deadline = None],
                                     o.timer.to_post).task
                        /\ nw.notifications =
                               IF wakes THEN WAnd(all, WNot(o.notification_mask))
                               ELSE all
                  /\ ~due => nw = o
                  /\ ~(nw.timer.deadline.some /\ nw.timer.deadline.val <= last.now)

\* at time 1 the timer of task 0, due at 1, fires without waking the task
\* (it is runnable) and the timer of task 1, due at 2, stays armed
C15_Witness ==
    /\ last.op = "process_timers"
    /\ last.now = 1
    /\ DOMAIN tasks = 0..1
    /\ last.old[0].timer.deadline = Some(1)
    /\ last.old[0].state = Healthy(Runnable)
    /\ tasks[0].timer.deadline = None
    /\ tasks[0].notifications = W(0, 1)
    /\ tasks[1].timer.deadline = Some(2)

\* C16: process_timers returns Same iff no task was woken (moved from
\* Healthy(InRecv(None)) to Healthy(Runnable)) during the pass, and returns
\* Specific(i) when exactly one task i was woken.
C16_TimerHint ==
    last.op = "process_timers" =>
        LET woken == {i \in DOMAIN tasks :
                         /\ last.old[i].state = Healthy(InRecv(None))
                         /\ tasks[i].state = Healthy(Runnable)}
        IN  /\ (last.ret = [tag |-> "Same"]) <=> (woken = {})
            /\ \A i \in woken :
                  woken = {i} => last.ret = [tag |-> "Specific", index |-> i]

\* S7 with two more timers firing in the same pass: tasks 0 and 1 are not
\* woken (bit 31 is masked, or the task is runnable), task 2 is, and the
\* hint is Specific(2)
C16_Witness ==
    /\ last.op = "process_timers"
    /\ DOMAIN tasks = 0..2
    /\ \A i \in 0..2 : last.old[i].timer.deadline = Some(1)
    /\ last.now = 2
    /\ last.old[0].state = Healthy(InRecv(None))
    /\ tasks[0].state = Healthy(InRecv(None))
    /\ last.old[1].state = Healthy(Runnable)
    /\ last.old[2].state = Healthy(InRecv(None))
    /\ tasks[2].state = Healthy(Runnable)
    /\ tasks[2].timer.deadline = None
    /\ last.ret = Specific(2)

\* C17: when two or more tasks are woken in one process_timers pass the
\* hint is Other; a Specific hint is returned only when a single task was
\* woken.
C17_SeveralWakesGiveOther ==
    last.op = "process_timers" =>
        LET woken == {i \in DOMAIN tasks :
                         /\ last.old[i].state = Healthy(InRecv(None))
                         /\ tasks[i].state = Healthy(Runnable)}
        IN  /\ Cardinality(woken) >= 2 => last.ret = [tag |-> "Other"]
            /\ last.ret.tag = "Specific" => Cardinality(woken) = 1

\* C18: timers are one-shot: a timer that has fired is disabled, and a
\* later process_timers pass, at any time, leaves its task as it is (posts
\* nothing) until set_timer arms it again.
C18_OneShot ==
    /\ \A i \in DOMAIN tasks :
          timer_event[i] = "fired" => tasks[i].timer.deadline = None
    /\ last.op = "process_timers" =>
          \A i \in DOMAIN tasks :
              last.events[i] = "fired" => tasks[i] = last.old[i]

\* the timer of the task fired earlier and woke it (bit 0 was delivered);
\* a later pass at the last tick posts nothing
C18_Witness ==
    /\ last.op = "process_timers"
    /\ last.events[0] = "fired"
    /\ last.now = MaxTime
    /\ tasks[0].timer.to_post = W(0, 1)
    /\ tasks[0].notification_mask = W(0, 1)
    /\ tasks[0].notifications = Zero32
    /\ tasks[0].state = Healthy(Runnable)

\* C19: set_timer replaces the deadline and the to_post set and nothing
\* else; after set_timer(None, _) the timer is disabled and process_timers
\* leaves the task as it is, at any time, until set_timer is called with a
\* Some deadline; a freshly (re)initialized task has a disabled timer with
\* an empty to_post set.
C19_SetTimer ==
    /\ last.op = "set_timer" =>
          tasks = [last.old EXCEPT
                      ![last.index] =
                          [@ EXCEPT !.timer = [deadline |-> last.deadline,
                                               to_post |-> last.n]]]
    /\ \A i \in DOMAIN tasks :
          /\ timer_event[i] = "cancelled" => tasks[i].timer.deadline = None
          /\ timer_event[i] = "armed" => tasks[i].timer.deadline # None
          /\ timer_event[i] = "fresh" =>
                tasks[i].timer = [deadline |-> None, to_post |-> Zero32]
    /\ last.op = "process_timers" =>
          \A i \in DOMAIN tasks :
              last.events[i] = "cancelled" => tasks[i] = last.old[i]

\* a timer with bits to post was cancelled; the pass at the last tick posts
\* nothing to the task, which stays in open receive
C19_Witness ==
    /\ last.op = "process_timers"
    /\ last.events[0] = "cancelled"
    /\ last.now = MaxTime
    /\ tasks[0].timer.to_post = W(0, 1)
    /\ tasks[0].notification_mask = W(0, 1)
    /\ tasks[0].notifications = Zero32
    /\ tasks[0].state = Healthy(InRecv(None))

(***************************************************************************)
(* Properties of fault injection (checked under SpecFault).                *)
(***************************************************************************)

\* C20: force_fault leaves the task Faulted with the fault of this call; the
\* original_state is the scheduling state of the task if it was Healthy and
\* is kept if the task was already Faulted, so after any sequence of calls
\* it is the state the task had when it was last Healthy and the fault is
\* that of the most recent call.
C20_ForceFaultState ==
    last.op = "force_fault" =>
        LET o == last.old[last.index].state
            nw == tasks[last.index].state
        IN  /\ nw.tag = "Faulted"
            /\ nw.fault = last.fault
            /\ o.tag = "Healthy" => nw.original_state = o.sched
            /\ o.tag = "Faulted" => nw.original_state = o.original_state

\* S6: a task that faulted in InRecv(Some(peer)) with FaultA faults again
\* with FaultB
C20_Witness ==
    /\ last.op = "force_fault"
    /\ last.index = 1
    /\ last.fault = "FaultB"
    /\ last.old[1].state = Faulted(InRecv(Some(PeerID)), "FaultA")
    /\ tasks[1].state = Faulted(InRecv(Some(PeerID)), "FaultB")

\* C21: force_fault returns Specific(0) exactly when its post woke the
\* supervisor, that is when task 0 was in open receive with a bit firing
\* (pending or just posted, under its mask) and is runnable on return; in
\* every other case, the fault of task 0 itself included, it returns Other;
\* it never returns Same.
C21_ForceFaultHint ==
    last.op = "force_fault" =>
        LET sup == last.old[0]
            firing == WAnd(WOr(sup.notifications, FAULT_NOTIFICATION),
                           sup.notification_mask)
            woken == /\ sup.state = Healthy(InRecv(None))
                     /\ firing # Zero32
                     /\ tasks[0].state = Healthy(Runnable)
        IN  /\ (last.ret = Specific(0)) <=> woken
            /\ ~woken => last.ret = Other
            /\ last.ret # Same

C21_Witness ==
    /\ last.op = "force_fault"
    /\ last.index = 1
    /\ last.old[0].state = Healthy(InRecv(None))
    /\ FAULT_NOTIFICATION = W(0, 1)
    /\ tasks[0].state = Healthy(Runnable)
    /\ last.ret = Specific(0)

\* C22: the bits force_fault posts to task 0 are the value of
\* FAULT_NOTIFICATION: zero while set_fault_notification was never called,
\* then the mask of its most recent call, whatever other operations ran in
\* between.  The posted bits show in the supervisor: its pending bits become
\* the old ones or-ed with the word, less the acknowledged ones when it wakes.
C22_PostsFaultNotification ==
    /\ FAULT_NOTIFICATION = (IF word_set.some THEN word_set.val ELSE Zero32)
    /\ last.op = "set_fault_notification" => FAULT_NOTIFICATION = last.mask
    /\ last.op = "force_fault" =>
           LET word == IF word_set.some THEN word_set.val ELSE Zero32
               sup == last.old[0]
               posted == WOr(sup.notifications, word)
           IN  tasks[0].notifications =
                   IF last.ret = Specific(0)
                   THEN WAnd(posted, WNot(sup.notification_mask))
                   ELSE posted

C22_Witness ==
    /\ last.op = "force_fault"
    /\ word_set = Some(W(0, 1))
    /\ last.old[0].notifications = Zero32
    /\ last.ret = Other
    /\ tasks[0].notifications = W(0, 1)

\* C23: a faulted task stays faulted, hence not runnable and never the
\* result of select, under post, update_mask, acknowledge_notifications,
\* set_timer, process_timers, force_fault, set_fault_notification and select;
\* only reinitialize of that very task makes it healthy again.
C23_FaultedStaysFaulted ==
    \A i \in DOMAIN tasks :
        (/\ last.op # "init"
         /\ last.old[i].state.tag = "Faulted"
         /\ ~(last.op = "reinitialize" /\ last.index = i))
        => /\ tasks[i].state.tag = "Faulted"
           /\ ~is_runnable(tasks[i])
           /\ (last.op = "select" /\ ~last.panic) => last.ret # i

C23_Witness ==
    /\ last.op = "post"
    /\ last.index = Worker
    /\ last.old[Worker].state = Faulted(InRecv(None), "FaultA")
    /\ last.old[Worker].notification_mask = W(0, 1)
    /\ last.n = W(0, 1)
    /\ tasks[Worker].state = Faulted(InRecv(None), "FaultA")
    /\ tasks[Worker].notifications = W(0, 1)

\* C24: reinitialize of a task in any state, a faulted one included, leaves
\* it Healthy(Runnable), with its timer disabled (no deadline, nothing to
\* post), no pending notification, and the next generation: the old one
\* plus one, modulo 64.
C24_Reinitialize ==
    last.op = "reinitialize" =>
        LET o == last.old[last.index]
            t == tasks[last.index]
        IN  /\ t.state = Healthy(Runnable)
            /\ t.timer.deadline = None
            /\ t.timer.to_post = Zero32
            /\ t.notifications = Zero32
            /\ t.generation = (o.generation + 1) % 64

C24_Witness ==
    /\ last.op = "reinitialize"
    /\ last.index = Worker
    /\ last.old[Worker].state = Faulted(InRecv(None), "FaultA")
    /\ last.old[Worker].timer.deadline = Some(MaxTime)
    /\ last.old[Worker].notifications = W(0, 1)
    /\ last.old[Worker].generation = 63
    /\ tasks[Worker].generation = 0
    /\ tasks[Worker].state = Healthy(Runnable)

(***************************************************************************)
(* Properties of generations and task IDs.                                 *)
(***************************************************************************)
\* C25: Generation is a 6-bit counter.  Each reboot maps the generation g
\* to (g + 1) mod 64, so 63 is followed by 0; and after k reboots the
\* generation is back to where it was exactly when k is a multiple of 64:
\* 64 applications of next are the identity and fewer (at least one) never are.
C25_GenerationWraps ==
    /\ \A i \in DOMAIN tasks : tasks[i].generation \in 0..63
    /\ last.op = "reinitialize" =>
           /\ tasks[last.index].generation
                  = (last.old[last.index].generation + 1) % 64
           /\ last.old[last.index].generation = 63
                  => tasks[last.index].generation = 0
    /\ held.some =>
           /\ tasks[held.val.index].generation
                  = (held.val.generation + held.val.reboots) % 64
           /\ (tasks[held.val.index].generation = held.val.generation)
                  <=> (held.val.reboots % 64 = 0)

C25_Witness ==
    /\ held.some
    /\ held.val.generation = 37
    /\ held.val.reboots = 64
    /\ last.op = "reinitialize"
    /\ last.old[Worker].generation = 36
    /\ tasks[Worker].generation = 37

\* C26: TaskID packing round-trips.  For every index in 0..1023 and every
\* generation in 0..63 the ID made by from_index_and_gen gives back the
\* index through index() and the generation through generation(); and
\* distinct pairs make distinct IDs: there are as many IDs as pairs.
C26_PackRoundTrip ==
    /\ last.op = "from_index_and_gen" =>
           /\ last.id \in 0..(Half - 1)
           /\ last.id_index = last.index
           /\ last.id_generation = last.gen
    /\ Cardinality(TaskIDs) = 1024 * 64

C26_Witness ==
    /\ last.op = "from_index_and_gen"
    /\ last.index = 1023
    /\ last.gen = 63
    /\ last.id_index = 1023
    /\ last.id_generation = 63

\* C27 as stated: the ID holds the generation in its top 6 bits and the
\* index in its low 10 bits, its value is generation * 1024 + index; index
\* 0x123 (291) with generation 0x2A (42) makes 0xAB23 (43811), whose index()
\* is 0x123 and whose generation() is 0x2A.
C27_Original ==
    last.op = "from_index_and_gen" =>
        /\ last.id = last.gen * 1024 + last.index
        /\ (last.index = 291 /\ last.gen = 42) =>
               /\ last.id = 43811
               /\ last.id_index = 291
               /\ last.id_generation = 42

\* C27, amended: the layout is as stated, generation * 1024 + index, but
\* index 0x123 with generation 0x2A makes 0xA923 (43299): 0x2A << 10 is
\* 0xA800.  Its index() is 0x123 and its generation() is 0x2A.
C27_PackLayout ==
    last.op = "from_index_and_gen" =>
        /\ last.id = last.gen * 1024 + last.index
        /\ last.id \div 1024 = last.gen
        /\ last.id % 1024 = last.index
        /\ (last.index = 291 /\ last.gen = 42) =>
               /\ last.id = 43299
               /\ last.id # 43811
               /\ last.id_index = 291
               /\ last.id_generation = 42

C27_Witness ==
    /\ last.op = "from_index_and_gen"
    /\ last.index = 291
    /\ last.gen = 42
    /\ last.id = 43299

\* C28: check_task_id_against_table has three outcomes.  It fails with the
\* fatal SyscallUsage(TaskOutOfRange) exactly when the index of the ID is not
\* below the length of the table, whatever the generation; it fails with the
\* recoverable DEAD and hint Same exactly when the index is in range and the
\* generation of that task differs from the one of the ID; otherwise it
\* returns Ok of the index, which is below the length.  The table is left
\* as it was.
C28_CheckTaskID ==
    last.op = "check_task_id_against_table" =>
        LET idx == last.id % 1024
            gen == last.id \div 1024
            n == Cardinality(DOMAIN last.old)
            fatal == Err(Unrecoverable(SyscallUsage_TaskOutOfRange))
            dead == Err(Recoverable(DEAD, Same))
        IN  /\ tasks = last.old
            /\ (last.ret = fatal) <=> (idx >= n)
            /\ (last.ret = dead)
                   <=> (idx < n /\ last.old[idx].generation # gen)
            /\ (last.ret = Ok(idx))
                   <=> (idx < n /\ last.old[idx].generation = gen)
            /\ last.ret \in {fatal, dead, Ok(idx)}
            /\ last.ret.ok => last.ret.val < n

C28_Witness ==
    /\ last.op = "check_task_id_against_table"
    /\ Cardinality(DOMAIN tasks) = 2
    /\ tasks[1].generation = 1
    /\ last.id = from_index_and_gen(1, GEN_MASK)
    /\ last.ret = Err(Recoverable(DEAD, Same))

\* C29 as stated: an ID formed from the index and current generation of a
\* task fails the check with DEAD, and is never Ok, once that task was
\* rebooted one or more times, however many.
C29_Original ==
    (/\ last.op = "check_task_id_against_table"
     /\ held.some
     /\ last.id = held.val.id
     /\ held.val.reboots >= 1)
    => last.ret = Err(Recoverable(DEAD, Same))

\* C29, amended: such an ID fails the check with DEAD once the task was
\* rebooted a number of times that is not a multiple of 64; after 64 reboots
\* the generation is the one of the ID again and the check returns Ok of the
\* index, as it does before any reboot.
C29_StaleIDIsDead ==
    (/\ last.op = "check_task_id_against_table"
     /\ held.some
     /\ last.id = held.val.id)
    => /\ held.val.reboots % 64 # 0
              => last.ret = Err(Recoverable(DEAD, Same))
       /\ held.val.reboots % 64 = 0 => last.ret = Ok(held.val.index)

C29_Witness ==
    /\ last.op = "check_task_id_against_table"
    /\ held.some
    /\ held.val.generation = 5
    /\ last.id = held.val.id
    /\ held.val.reboots = 63
    /\ tasks[Worker].generation = 4
    /\ last.ret = Err(Recoverable(DEAD, Same))

\* C30: the KERNEL sentinel never names a task: on every table, whatever
\* the generations of its tasks, the check of TaskID::KERNEL fails and never
\* returns Ok of an index.
C30_KernelNeverResolves ==
    (last.op = "check_task_id_against_table" /\ last.id = KERNEL)
    => ~last.ret.ok

(***************************************************************************)
(* Properties of the memory-region model (checked under SpecRegion).       *)
(***************************************************************************)
\* C31: can_read is true exactly when the slice is empty or one region of
\* the table holds every byte of the slice, has READ and has not DEVICE;
\* can_write likewise with WRITE.  So an empty slice passes even with an
\* empty table, a slice within a READ|DEVICE region alone is refused, and a
\* slice that only two regions together hold is refused.
C31_CanAccess ==
    last.op = "can_access" =>
        LET sl == last.slice
            rt == tasks[0].region_table
            bytes == sl.base..(sl.base + sl.len - 1)
            holds(r) == bytes \subseteq r.base..(r.base + r.size - 1)
            normal(flag) ==
                \E k \in DOMAIN rt : /\ holds(rt[k])
                                     /\ flag \in rt[k].attributes
                                     /\ "DEVICE" \notin rt[k].attributes
        IN  /\ last.can_read <=> (sl.len = 0 \/ normal("READ"))
            /\ last.can_write <=> (sl.len = 0 \/ normal("WRITE"))
            /\ sl.len = 0 => last.can_read /\ last.can_write
            /\ (sl.len > 0 /\ \A k \in DOMAIN rt : "DEVICE" \in rt[k].attributes)
                   => ~last.can_read /\ ~last.can_write
            /\ (sl.len > 0 /\ \A k \in DOMAIN rt : ~holds(rt[k]))
                   => ~last.can_read /\ ~last.can_write
            /\ tasks = last.old

C31_Witness ==
    /\ last.op = "can_access"
    /\ tasks[0].region_table =
           <<[base |-> 0, size |-> 2, attributes |-> {"READ", "WRITE"}],
             [base |-> 2, size |-> 2, attributes |-> {"READ", "WRITE"}]>>
    /\ last.slice = [base |-> 1, len |-> 2]
    /\ ~last.can_read
    /\ ~last.can_write

(***************************************************************************)
(* Properties of the argument proxies (checked under SpecTimerArgs).       *)
(***************************************************************************)
\* C32: the TIMER proxy decodes the deadline as None exactly when arg0 is
\* zero, and otherwise as the 64-bit timestamp whose high word is arg2 and
\* whose low word is arg1, every bit of both kept; the notification set is
\* arg3; decoding leaves the task table as it was.
C32_TimerArgs ==
    last.op = "as_timer_args" =>
        LET save == last.old[last.index].save
        IN  /\ (last.deadline = None) <=> (save.arg0 = Zero32)
            /\ save.arg0 # Zero32 =>
                   /\ last.deadline.some
                   /\ last.deadline.val.ticks.hi = save.arg2
                   /\ last.deadline.val.ticks.lo = save.arg1
            /\ last.notification = save.arg3
            /\ tasks = last.old

C32_Witness ==
    /\ last.op = "as_timer_args"
    /\ tasks[0].save.arg0 = W(TopBit, 0)
    /\ tasks[0].save.arg1 = W(43981, 4660)
    /\ tasks[0].save.arg2 = W(0, 1)
    /\ tasks[0].save.arg3 = W(TopBit, 0)
    /\ last.deadline = Some(Timestamp_from([hi |-> W(0, 1), lo |-> W(43981, 4660)]))
    /\ last.notification = W(TopBit, 0)

(***************************************************************************)
(* Properties across operations (checked under SpecKernel).                *)
(***************************************************************************)
\* C33: no wake-up is lost through post.  Right after a post on a task, be
\* it direct, by process_timers for a due timer, or by force_fault on the
\* supervisor, that task is not in open receive with a pending bit under
\* its mask; and a task that is in open receive with such a bit is woken by
\* the next post on it, whatever bits the post carries, none included.
C33_NoLostWakeup ==
    LET stuck(t) == /\ t.state = Healthy(InRecv(None))
                    /\ WAnd(t.notifications, t.notification_mask) # Zero32
    IN  /\ last.op = "post" =>
               /\ ~stuck(tasks[last.index])
               /\ stuck(last.old[last.index]) =>
                      /\ last.ret = TRUE
                      /\ tasks[last.index].state = Healthy(Runnable)
        /\ last.op = "process_timers" =>
               \A i \in DOMAIN tasks :
                   (/\ last.old[i].timer.deadline.some
                    /\ last.old[i].timer.deadline.val <= last.now)
                   => ~stuck(tasks[i])
        /\ last.op = "force_fault" => ~stuck(tasks[0])

C33_Witness ==
    /\ last.op = "post"
    /\ last.n = Zero32
    /\ last.old[Worker].state = Healthy(InRecv(None))
    /\ last.old[Worker].notifications = W(0, 1)
    /\ last.old[Worker].notification_mask = W(0, 1)
    /\ last.ret = TRUE
    /\ tasks[Worker].state = Healthy(Runnable)
    /\ tasks[Worker].notifications = Zero32

\* C34: NextTask::combine is associative: folding three hints gives the
\* same hint whether the first two or the last two are combined first.
C34_CombineAssociative ==
    last.op = "combine" => last.left = last.right

(***************************************************************************)
(* Frame and error properties of force_fault (checked under SpecFault).    *)
(***************************************************************************)
\* C35: force_fault changes the state of the task it faults and, by its
\* post, the pending bits, the state and the recv-result registers of task
\* 0, and nothing else: the faulted task keeps its timer (armed stays
\* armed), pending bits, mask, generation and priority, task 0 keeps its
\* other fields, and every other task is as it was.
C35_ForceFaultFrame ==
    last.op = "force_fault" =>
        \A i \in DOMAIN tasks :
            LET o == last.old[i]
                t == tasks[i]
            IN  /\ i \notin {0, last.index} => t = o
                /\ (i = last.index /\ i # 0) => t = [o EXCEPT !.state = t.state]
                /\ i = 0 => t = [o EXCEPT !.state = t.state,
                                          !.notifications = t.notifications,
                                          !.save = t.save]
                /\ (i = 0 /\ last.ret = Other) => t.save = o.save
                /\ (i = 0 /\ last.ret = Other /\ last.index # 0)
                       => t.state = o.state

C35_Witness ==
    /\ last.op = "force_fault"
    /\ Cardinality(DOMAIN tasks) = 3
    /\ last.index = 1
    /\ last.ret = Specific(0)
    /\ last.old[1].state = Healthy(Runnable)
    /\ tasks[1].timer.deadline = Some(MaxTime)
    /\ tasks[1].notifications = W(TopBit, 0)
    /\ tasks[2] = last.old[2]

\* C36: when the supervisor itself is faulted, by this force_fault (index 0)
\* or already before it, the fault notification bits are still or-ed into
\* the pending bits of task 0, but task 0 is not woken: it stays faulted,
\* its registers are untouched, and force_fault returns Other.
C36_FaultedSupervisor ==
    (/\ last.op = "force_fault"
     /\ (last.index = 0 \/ last.old[0].state.tag = "Faulted"))
    => /\ tasks[0].notifications
              = WOr(last.old[0].notifications, FAULT_NOTIFICATION)
       /\ tasks[0].state.tag = "Faulted"
       /\ tasks[0].save = last.old[0].save
       /\ last.ret = Other

C36_Witness ==
    /\ last.op = "force_fault"
    /\ last.index = 0
    /\ last.old[0].state = Healthy(InRecv(None))
    /\ last.old[0].notification_mask = W(0, 1)
    /\ last.old[0].notifications = Zero32
    /\ FAULT_NOTIFICATION = W(0, 1)
    /\ tasks[0].state = Faulted(InRecv(None), "FaultA")
    /\ tasks[0].notifications = W(0, 1)
    /\ last.ret = Other

(***************************************************************************)
(* The previous index of select (checked under SpecSelectFrom).            *)
(***************************************************************************)
\* C37: with previous within the table, the task at previous is the last
\* one select looks at: it returns previous again only if that task is
\* runnable and strictly more important than every other runnable task.
\* With previous at or beyond the length of a table that is not empty, the
\* scan indexes outside the table and panics, whether or not a task is
\* runnable; no task is returned.
C37_PreviousLast ==
    last.op = "select" =>
        LET old == last.old
            len == Cardinality(DOMAIN old)
            p == last.previous
        IN  /\ (p < len /\ ~last.panic /\ last.ret = p) =>
                   /\ is_runnable(old[p])
                   /\ \A j \in DOMAIN old \ {p} :
                          is_runnable(old[j]) => old[p].priority < old[j].priority
            /\ p < len => last.scan # IndexPanic
            /\ p >= len =>
                   /\ last.panic
                   /\ panicked
                   /\ last.scan = IndexPanic

C37_Witness ==
    /\ last.op = "select"
    /\ DOMAIN tasks = 0..1
    /\ tasks[0].state = Healthy(Runnable)
    /\ tasks[1].state = Healthy(Runnable)
    /\ last.previous = 2
    /\ last.panic
    /\ last.scan = IndexPanic

\* C38: frame of reinitialize.  The step that reinitializes task i sets its
\* notification mask to 0, leaves its priority, region table and descriptor
\* as they were and leaves every other task as it was.  Consequently, from
\* then on and as long as neither set_timer nor update_mask is called on
\* task i, its timer stays disabled and its mask stays 0, process_timers
\* posts nothing to it, and no post wakes it (post on it returns false and
\* no step makes it runnable that was not).
C38_ReinitializeFrame ==
    [][\A i \in DOMAIN tasks :
          LET o == tasks[i]
              t == tasks'[i]
              rebooted == last'.op = "reinitialize" /\ last'.index = i
              rearmed == /\ last'.op \in {"set_timer", "update_mask"}
                         /\ last'.index = i
              quiet == /\ o.timer = DefaultTimer
                       /\ o.notification_mask = Zero32
          IN  /\ rebooted =>
                     /\ t.notification_mask = Zero32
                     /\ t.timer = DefaultTimer
                     /\ t.priority = o.priority
                     /\ t.region_table = o.region_table
                     /\ t.descriptor = o.descriptor
                     /\ \A j \in DOMAIN tasks \ {i} : tasks'[j] = tasks[j]
              /\ (quiet /\ ~rebooted /\ ~rearmed) =>
                     /\ t.timer = DefaultTimer
                     /\ t.notification_mask = Zero32
                     /\ last'.op = "process_timers" =>
                            t.notifications = o.notifications
                     /\ (last'.op = "post" /\ last'.index = i) => ~last'.ret
                     /\ is_runnable(t) => is_runnable(o)]_vars

C38_Witness ==
    /\ last.op = "process_timers"
    /\ last.now = MaxTime
    /\ tasks[Worker].generation = 0
    /\ timer_event[Worker] = "fresh"
    /\ tasks[Worker].timer = DefaultTimer
    /\ tasks[Worker].notification_mask = Zero32
    /\ tasks[Worker].notifications = W(0, 1)
    /\ tasks[Worker].priority = 1
    /\ tasks[Worker].region_table # << >>
    /\ tasks[Worker].state = Healthy(Runnable)

====
